---------------------------- MODULE Spec2Model ----------------------------
(***************************************************************************)
(* The feedback generator of the wireframe critic                          *)
(* (first_cursor_project/src/utils/feedbackGenerator.js) over the shipped  *)
(* phrase table (src/data/feedbackPhrases.js).                             *)
(*                                                                         *)
(* A JavaScript string is the tuple of its UTF-16 code units.  A 32-bit    *)
(* integer is the pair <<hi, lo>> of its two 16-bit halves, so that the    *)
(* wrap-around of (h << 5) - h + c | 0 and the value 2^31 of Math.abs can  *)
(* be computed exactly.                                                    *)
(***************************************************************************)
EXTENDS Integers, Sequences, FiniteSets, TLC

VARIABLES
    description, imageData, persona,   \* the arguments under study
    feedbacks,                         \* the list the latest call with them returned
    firstFeedbacks,                    \* the list the first call with them returned
    paddedDescription,                 \* the description of the latest call made with
    paddedFeedbacks,                   \*   white space around it, and the list it returned
    generations,                       \* the number of calls made with the arguments
    paddedCalls                        \* the number of calls made with a padded description

\* a call of the selector on its own
VARIABLES
    selectorCategories,                \* the categories asked for
    selectorPersona,                   \* the persona
    selectorSeed,                      \* the seed
    selection                          \* the list returned, <<>> before the call

\* a call of generateNextTestSteps
VARIABLES
    stepFeedbacks,                     \* the feedback list: items with a category and a type
    stepPersona,                       \* the persona
    nextStepsSuggestions               \* the suggestions returned, <<>> before the call

\* the page of the application (App.jsx) and the store of the browser
VARIABLES
    app,                               \* the state of the component App
    localStorage,                      \* <<>>, or <<the session stored under STORAGE_KEY>>
    saveTimeout,                       \* <<>>, or <<currentState of the pending auto-save>>
    notesSaveTimeout,                  \* <<>>, or <<currentState of the pending save of notes>>
    generating,                        \* the renders whose handleGenerateFeedback is waiting
    exporting,                         \* the calls of handleExportToPDF before their finally
    resetTimers,                       \* the pending timers of handleExportToPDF's finally
    analyzing,                         \* the files whose analyzeImage has not returned
    alertMessage,                      \* the text of the last alert, <<>> before any
    events,                            \* the number of things the user has done
    cleared,                           \* <<>>, or <<what the last Clear Session removed>>
    lastSaved                          \* <<>>, or <<the argument of the last saveSession>>

\* a call of generateImageBasedFeedback
VARIABLES
    heuristicImage,                    \* the image metadata
    heuristicPersona,                  \* the persona
    heuristicSeed,                     \* the seed
    heuristicCalled,                   \* whether the call has been made
    additionalFeedbacks                \* the list returned, <<>> before the call

\* a call of filterByPersona
VARIABLES
    prioritizerFeedbacks,              \* the array passed, as it is after the call
    prioritizerGiven,                  \* the array passed, as it was before the call
    prioritizerPersona,                \* the persona
    prioritizerCalled,                 \* whether the call has been made
    sortedFeedbacks                    \* the list returned, <<>> before the call

\* a call of simpleHash
VARIABLES
    hashInput,                         \* the string passed
    hashCalled,                        \* whether the call has been made
    hashValue                          \* the number returned, 0 before the call

\* two calls of generateFeedback that differ in the derived fields of the
\* image metadata only
VARIABLES
    metadataDescription,               \* the description of both calls
    metadataPersona,                   \* the persona of both calls
    metadataAnalyzed,                  \* the metadata of the first call, as analyzeImage returns it
    metadataAltered,                   \* the metadata of the second: same width and height
    metadataCalled,                    \* whether the calls have been made
    metadataSeeds,                     \* the two seeds, <<>> before the calls
    metadataFeedbacks                  \* the two lists returned, <<>> before the calls

(***************************************************************************)
(* Numbers                                                                 *)
(***************************************************************************)
Half == 65536

\* the 32-bit pattern of a small non-negative integer
Num(n) == <<n \div Half, n % Half>>

\* a - b modulo 2^32
Sub32(a, b) ==
    LET lo == a[2] - b[2]
        borrow == IF lo < 0 THEN 1 ELSE 0
    IN  <<(a[1] - b[1] - borrow + 2 * Half) % Half, (lo + Half) % Half>>

\* the 32-bit pattern returned as it is, a negative reading included
MathAbsSkipped(h) == h

\* Math.abs of the signed reading of a 32-bit pattern; the result is a
\* non-negative number hi * 65536 + lo in 0 .. 2^31
MathAbs(h) ==
    IF h[1] >= Half \div 2
    THEN Sub32(<<0, 0>>, h)
    ELSE h

\* n % m for a non-negative number n and a small positive m
NumMod(n, m) == ((n[1] % m) * (Half % m) + (n[2] % m)) % m

\* a - b < 0, a - b > 0 for non-negative numbers
NumLess(a, b) == a[1] < b[1] \/ (a[1] = b[1] /\ a[2] < b[2])

\* n divided by ten
NumDiv10(n) ==
    LET t == (n[1] % 10) * Half + n[2]
    IN  <<n[1] \div 10, t \div 10>>

(***************************************************************************)
(* Strings                                                                 *)
(***************************************************************************)
\* String(n) of a non-negative number: its decimal digits
RECURSIVE NumToString(_)
NumToString(n) ==
    LET d == NumMod(n, 10)
    IN  IF n[1] = 0 /\ n[2] < 10
        THEN <<48 + d>>
        ELSE Append(NumToString(NumDiv10(n)), 48 + d)

\* String(i) of a small non-negative integer (an array index, a pixel size)
IntToString(i) == NumToString(Num(i))

\* WhiteSpace and LineTerminator code units: what trim() strips and \s matches
WhiteSpace ==
    {9, 10, 11, 12, 13, 32, 160, 5760, 8232, 8233, 8239, 8287, 12288, 65279}
        \cup 8192..8202

IsWhiteSpace(c) == c \in WhiteSpace

\* what . does not match
IsLineTerminator(c) == c \in {10, 13, 8232, 8233}

\* \w
IsWordChar(c) == c \in 48..57 \/ c \in 65..90 \/ c \in 97..122 \/ c = 95

\* \d
IsDigit(c) == c \in 48..57

\* toLowerCase of one code unit (the Basic Latin and Latin-1 letters; the code
\* units of the phrase table and of the descriptions are in this range or caseless)
LowerChar(c) ==
    IF c \in 65..90 \/ (c \in 192..222 /\ c # 215) THEN c + 32 ELSE c

ToLowerCase(s) == [i \in 1..Len(s) |-> LowerChar(s[i])]

\* String.prototype.trim
Trim(s) ==
    IF \A i \in 1..Len(s) : IsWhiteSpace(s[i]) THEN <<>>
    ELSE LET \* the number of white space code units at the start, at the end
             leading == CHOOSE n \in 0..(Len(s) - 1) :
                            /\ ~IsWhiteSpace(s[n + 1])
                            /\ \A j \in 1..n : IsWhiteSpace(s[j])
             trailing == CHOOSE n \in 0..(Len(s) - 1) :
                             /\ ~IsWhiteSpace(s[Len(s) - n])
                             /\ \A j \in (Len(s) - n + 1)..Len(s) : IsWhiteSpace(s[j])
         IN  SubSeq(s, leading + 1, Len(s) - trailing)

\* s.startsWith(prefix)
StartsWith(s, prefix) ==
    Len(prefix) <= Len(s) /\ SubSeq(s, 1, Len(prefix)) = prefix

\* the literal lit occurs in s at position i
MatchAt(s, i, lit) ==
    i + Len(lit) - 1 <= Len(s) /\ SubSeq(s, i, i + Len(lit) - 1) = lit

\* \s* followed by the literal lit, starting at position i
MatchSpacesThen(s, i, lit) ==
    \E j \in i..Len(s) :
        /\ \A k \in i..(j - 1) : IsWhiteSpace(s[k])
        /\ MatchAt(s, j, lit)

(***************************************************************************)
(* simpleHash, getInputSeed                                                *)
(***************************************************************************)
\* one round of the loop of simpleHash: h = ((h << 5) - h + s.charCodeAt(i)) | 0.
\* The sum is exact and the conversion to 32 bits reduces it
\* modulo 2^32, so the new pattern is 31 * h + c modulo 2^32.
HashStep(h, c) ==
    LET lo == h[2] * 31 + c
    IN  <<(h[1] * 31 + lo \div Half) % Half, lo % Half>>

\* the loop of simpleHash over s[from..to], left to right, from accumulator h.
\* The range is halved, and the accumulator of the first half is computed before
\* the second half is entered, so that the evaluation does not nest Len(s) deep.
RECURSIVE HashRange(_, _, _, _)
HashRange(h, s, from, to) ==
    IF from > to THEN h
    ELSE IF from = to THEN HashStep(h, s[from])
    ELSE LET mid == (from + to) \div 2
             half == HashRange(h, s, from, mid)
         IN  IF half \in Seq(Int) THEN HashRange(half, s, mid + 1, to) ELSE half

simpleHash(str) == MathAbs(HashRange(<<0, 0>>, str, 1, Len(str)))

(***************************************************************************)
(* String literals of feedbackGenerator.js                                 *)
(***************************************************************************)
\* "End-User"
EndUser ==
    <<69, 110, 100, 45, 85, 115, 101, 114>>

\* "Stakeholder"
Stakeholder ==
    <<83, 116, 97, 107, 101, 104, 111, 108, 100, 101, 114>>

\* "Accessibility Expert"
AccessibilityExpert ==
    <<65, 99, 99, 101, 115, 115, 105, 98, 105, 108, 105, 116, 121, 32, 69, 120, 112, 101, 114, 116>>

\* "General Designer"
GeneralDesigner ==
    <<71, 101, 110, 101, 114, 97, 108, 32, 68, 101, 115, 105, 103, 110, 101, 114>>

\* "|"
Bar ==
    <<124>>

\* "-"
Dash ==
    <<45>>

\* " "
Space ==
    <<32>>

\* "fallback"
FallbackWord ==
    <<102, 97, 108, 108, 98, 97, 99, 107>>

\* "feedback-"
IdFeedback ==
    <<102, 101, 101, 100, 98, 97, 99, 107, 45>>

\* "-fallback-"
IdDashFallback ==
    <<45, 102, 97, 108, 108, 98, 97, 99, 107, 45>>

\* "feedback-image-mobile-"
IdImageMobile ==
    <<102, 101, 101, 100, 98, 97, 99, 107, 45, 105, 109, 97, 103, 101, 45, 109, 111, 98, 105, 108,
    101, 45>>

\* "feedback-image-", the start of the ids of both image items
IdImage == <<102, 101, 101, 100, 98, 97, 99, 107, 45, 105, 109, 97, 103, 101, 45>>

\* "feedback-image-responsive-"
IdImageResponsive ==
    <<102, 101, 101, 100, 98, 97, 99, 107, 45, 105, 109, 97, 103, 101, 45, 114, 101, 115, 112, 111,
    110, 115, 105, 118, 101, 45>>

\* "feedback-fallback-"
IdFeedbackFallback ==
    <<102, 101, 101, 100, 98, 97, 99, 107, 45, 102, 97, 108, 108, 98, 97, 99, 107, 45>>

\* "Consider how this large layout adapts to smaller screens and mobile devices."
ResponsiveText ==
    <<67, 111, 110, 115, 105, 100, 101, 114, 32, 104, 111, 119, 32, 116, 104, 105, 115, 32, 108,
    97, 114, 103, 101, 32, 108, 97, 121, 111, 117, 116, 32, 97, 100, 97, 112, 116, 115, 32,
    116, 111, 32, 115, 109, 97, 108, 108, 101, 114, 32, 115, 99, 114, 101, 101, 110, 115, 32,
    97, 110, 100, 32, 109, 111, 98, 105, 108, 101, 32, 100, 101, 118, 105, 99, 101, 115, 46>>

\* "Ensure responsive breakpoints are implemented and test the layout at various screen sizes."
ResponsiveSuggestion ==
    <<69, 110, 115, 117, 114, 101, 32, 114, 101, 115, 112, 111, 110, 115, 105, 118, 101, 32, 98,
    114, 101, 97, 107, 112, 111, 105, 110, 116, 115, 32, 97, 114, 101, 32, 105, 109, 112, 108,
    101, 109, 101, 110, 116, 101, 100, 32, 97, 110, 100, 32, 116, 101, 115, 116, 32, 116, 104,
    101, 32, 108, 97, 121, 111, 117, 116, 32, 97, 116, 32, 118, 97, 114, 105, 111, 117, 115,
    32, 115, 99, 114, 101, 101, 110, 32, 115, 105, 122, 101, 115, 46>>

\* the literal alternatives of the pattern of isStakeholderStyle
StakeholderWords ==
    <<
        <<99, 111, 110, 118, 101, 114, 115, 105, 111, 110>>,                           \* conversion
        <<114, 101, 116, 101, 110, 116, 105, 111, 110>>,                               \* retention
        <<109, 101, 116, 114, 105, 99, 115>>,                                          \* metrics
        <<114, 111, 105>>,                                                             \* roi
        <<102, 117, 110, 110, 101, 108>>,                                              \* funnel
        <<99, 111, 109, 112, 108, 101, 116, 105, 111, 110, 32, 114, 97, 116, 101>>,    \* completion rate
        <<97, 98, 97, 110, 100, 111, 110, 109, 101, 110, 116>>,                        \* abandonment
        <<98, 111, 117, 110, 99, 101>>,                                                \* bounce
        <<100, 114, 111, 112, 32, 111, 102, 102>>,                                     \* drop off
        <<105, 110, 100, 117, 115, 116, 114, 121, 32, 97, 118, 103>>,                  \* industry avg
        <<118, 105, 101, 119, 112, 111, 114, 116, 32, 98, 101, 110, 99, 104, 109, 97, 114, 107, 115>>, \* viewport benchmarks
        <<101, 120, 105, 116, 32, 114, 97, 116, 101>>,                                 \* exit rate
        <<118, 97, 108, 117, 101, 32, 112, 114, 111, 112, 115>>                        \* value props
    >>

\* the alternatives that end its last branch, \d+%\s*(lift|fewer|per)
PercentWords ==
    <<
        <<108, 105, 102, 116>>,                                                        \* lift
        <<102, 101, 119, 101, 114>>,                                                   \* fewer
        <<112, 101, 114>>                                                              \* per
    >>

\* the literal alternatives of the pattern of isAccessibilityExpertStyle
AccessibilityWords ==
    <<
        <<119, 99, 97, 103>>,                                                          \* wcag
        <<52, 46, 53, 58, 49>>,                                                        \* 4.5:1
        <<102, 111, 99, 117, 115, 32, 111, 114, 100, 101, 114>>,                       \* focus order
        <<102, 111, 99, 117, 115, 32, 118, 105, 115, 105, 98, 108, 101>>,              \* focus visible
        <<116, 97, 114, 103, 101, 116, 32, 115, 105, 122, 101>>,                       \* target size
        <<114, 101, 102, 108, 111, 119>>,                                              \* reflow
        <<108, 97, 98, 101, 108, 115, 32, 111, 114, 32, 105, 110, 115, 116, 114, 117, 99, 116, 105, 111, 110, 115>>, \* labels or instructions
        <<117, 115, 101, 32, 111, 102, 32, 99, 111, 108, 111, 114>>,                   \* use of color
        <<105, 110, 102, 111, 32, 97, 110, 100, 32, 114, 101, 108, 97, 116, 105, 111, 110, 115, 104, 105, 112, 115>> \* info and relationships
    >>

\* what follows sc\s* in its branches sc\s*1\. sc\s*2\. sc\s*3\.
ScNumbers ==
    <<
        <<49, 46>>,                                                                    \* 1.
        <<50, 46>>,                                                                    \* 2.
        <<51, 46>>                                                                     \* 3.
    >>

\* "sc"
Sc ==
    <<115, 99>>

\* The alternatives of the six patterns of extractKeywords; -1 stands for the
\* metacharacter . (any code unit but a line terminator).
navPattern ==
    <<
        <<110, 97, 118>>,                                                              \* nav
        <<110, 97, 118, 105, 103, 97, 116, 105, 111, 110>>,                            \* navigation
        <<109, 101, 110, 117>>,                                                        \* menu
        <<104, 101, 97, 100, 101, 114>>,                                               \* header
        <<102, 111, 111, 116, 101, 114>>,                                              \* footer
        <<115, 105, 100, 101, 98, 97, 114>>,                                           \* sidebar
        <<98, 114, 101, 97, 100, 99, 114, 117, 109, 98>>,                              \* breadcrumb
        <<108, 105, 110, 107>>,                                                        \* link
        <<108, 105, 110, 107, 115>>                                                    \* links
    >>

formPattern ==
    <<
        <<102, 111, 114, 109>>,                                                        \* form
        <<105, 110, 112, 117, 116>>,                                                   \* input
        <<102, 105, 101, 108, 100>>,                                                   \* field
        <<102, 105, 101, 108, 100, 115>>,                                              \* fields
        <<98, 117, 116, 116, 111, 110>>,                                               \* button
        <<98, 117, 116, 116, 111, 110, 115>>,                                          \* buttons
        <<115, 117, 98, 109, 105, 116>>,                                               \* submit
        <<116, 101, 120, 116, 98, 111, 120>>,                                          \* textbox
        <<116, 101, 120, 116, 97, 114, 101, 97>>,                                      \* textarea
        <<99, 104, 101, 99, 107, 98, 111, 120>>,                                       \* checkbox
        <<114, 97, 100, 105, 111>>,                                                    \* radio
        <<100, 114, 111, 112, 100, 111, 119, 110>>,                                    \* dropdown
        <<115, 101, 108, 101, 99, 116>>                                                \* select
    >>

layoutPattern ==
    <<
        <<108, 97, 121, 111, 117, 116>>,                                               \* layout
        <<103, 114, 105, 100>>,                                                        \* grid
        <<99, 111, 108, 117, 109, 110>>,                                               \* column
        <<99, 111, 108, 117, 109, 110, 115>>,                                          \* columns
        <<114, 111, 119>>,                                                             \* row
        <<99, 97, 114, 100>>,                                                          \* card
        <<99, 97, 114, 100, 115>>,                                                     \* cards
        <<115, 101, 99, 116, 105, 111, 110>>,                                          \* section
        <<103, 114, 111, 117, 112>>,                                                   \* group
        <<104, 105, 101, 114, 97, 114, 99, 104, 121>>,                                 \* hierarchy
        <<104, 101, 97, 100, 105, 110, 103>>,                                          \* heading
        <<104, 101, 97, 100, 105, 110, 103, 115>>,                                     \* headings
        <<116, 105, 116, 108, 101>>,                                                   \* title
        <<116, 105, 116, 108, 101, 115>>                                               \* titles
    >>

mobilePattern ==
    <<
        <<109, 111, 98, 105, 108, 101>>,                                               \* mobile
        <<114, 101, 115, 112, 111, 110, 115, 105, 118, 101>>,                          \* responsive
        <<98, 114, 101, 97, 107, 112, 111, 105, 110, 116>>,                            \* breakpoint
        <<98, 114, 101, 97, 107, 112, 111, 105, 110, 116, 115>>,                       \* breakpoints
        <<116, 111, 117, 99, 104>>,                                                    \* touch
        <<116, 97, 112>>,                                                              \* tap
        <<115, 99, 114, 101, 101, 110>>,                                               \* screen
        <<118, 105, 101, 119, 112, 111, 114, 116>>,                                    \* viewport
        <<100, 101, 118, 105, 99, 101>>                                                \* device
    >>

usabilityPattern ==
    <<
        <<99, 108, 105, 99, 107>>,                                                     \* click
        <<105, 110, 116, 101, 114, 97, 99, 116, 105, 111, 110>>,                       \* interaction
        <<97, 99, 116, 105, 111, 110>>,                                                \* action
        <<99, 116, 97>>,                                                               \* cta
        <<99, 97, 108, 108, -1, 116, 111, -1, 97, 99, 116, 105, 111, 110>>,            \* call.to.action
        <<117, 115, 101, 114>>,                                                        \* user
        <<117, 115, 101, 114, 115>>,                                                   \* users
        <<105, 110, 116, 101, 114, 102, 97, 99, 101>>,                                 \* interface
        <<117, 105>>,                                                                  \* ui
        <<117, 120>>,                                                                  \* ux
        <<101, 120, 112, 101, 114, 105, 101, 110, 99, 101>>                            \* experience
    >>

accessibilityPattern ==
    <<
        <<97, 99, 99, 101, 115, 115, 105, 98, 105, 108, 105, 116, 121>>,               \* accessibility
        <<97, 99, 99, 101, 115, 115, 105, 98, 108, 101>>,                              \* accessible
        <<97, 49, 49, 121>>,                                                           \* a11y
        <<115, 99, 114, 101, 101, 110, -1, 114, 101, 97, 100, 101, 114>>,              \* screen.reader
        <<107, 101, 121, 98, 111, 97, 114, 100>>,                                      \* keyboard
        <<99, 111, 110, 116, 114, 97, 115, 116>>,                                      \* contrast
        <<99, 111, 108, 111, 114>>,                                                    \* color
        <<98, 108, 105, 110, 100>>,                                                    \* blind
        <<118, 105, 115, 105, 111, 110>>,                                              \* vision
        <<100, 105, 115, 97, 98, 105, 108, 105, 116, 121>>                             \* disability
    >>

(* The shipped phrase table (feedbackPhrases.js). A string is the tuple of its UTF-16 *)
(* code units, which is what charCodeAt, toLowerCase, trim and the regular expressions *)
(* of the generator work on. A null suggestion is the empty tuple: the generator reads *)
(* a suggestion only through (suggestion || '').                                       *)
feedbackPhrases ==
  <<
    \* [0] line 7: "The button text is clear and action-oriented, making the primary action obvious to users."
    [ text |-> <<84, 104, 101, 32, 98, 117, 116, 116, 111, 110, 32, 116, 101, 120, 116, 32, 105, 115, 32, 99, 108,
                101, 97, 114, 32, 97, 110, 100, 32, 97, 99, 116, 105, 111, 110, 45, 111, 114, 105,
                101, 110, 116, 101, 100, 44, 32, 109, 97, 107, 105, 110, 103, 32, 116, 104, 101,
                32, 112, 114, 105, 109, 97, 114, 121, 32, 97, 99, 116, 105, 111, 110, 32, 111, 98,
                118, 105, 111, 117, 115, 32, 116, 111, 32, 117, 115, 101, 114, 115, 46>>,
      category |-> "usability", type |-> "positive",
      suggestion |-> <<>> ],
    \* [1] line 13: "This unclear CTA could reduce conversion by 10–20% (industry avg). Consider stronger action-oriented copy."
    [ text |-> <<84, 104, 105, 115, 32, 117, 110, 99, 108, 101, 97, 114, 32, 67, 84, 65, 32, 99, 111, 117, 108,
                100, 32, 114, 101, 100, 117, 99, 101, 32, 99, 111, 110, 118, 101, 114, 115, 105,
                111, 110, 32, 98, 121, 32, 49, 48, 8211, 50, 48, 37, 32, 40, 105, 110, 100, 117,
                115, 116, 114, 121, 32, 97, 118, 103, 41, 46, 32, 67, 111, 110, 115, 105, 100, 101,
                114, 32, 115, 116, 114, 111, 110, 103, 101, 114, 32, 97, 99, 116, 105, 111, 110,
                45, 111, 114, 105, 101, 110, 116, 101, 100, 32, 99, 111, 112, 121, 46>>,
      category |-> "usability", type |-> "issue",
      suggestion |-> <<65, 47, 66, 32, 116, 101, 115, 116, 32, 98, 117, 116, 116, 111, 110, 32, 99, 111, 112, 121, 59,
                32, 39, 71, 101, 116, 32, 115, 116, 97, 114, 116, 101, 100, 39, 32, 97, 110, 100,
                32, 39, 83, 116, 97, 114, 116, 32, 102, 114, 101, 101, 32, 116, 114, 105, 97, 108,
                39, 32, 111, 102, 116, 101, 110, 32, 111, 117, 116, 112, 101, 114, 102, 111, 114,
                109, 32, 118, 97, 103, 117, 101, 32, 108, 97, 98, 101, 108, 115, 32, 97, 110, 100,
                32, 105, 109, 112, 114, 111, 118, 101, 32, 99, 111, 110, 118, 101, 114, 115, 105,
                111, 110, 46>> ],
    \* [2] line 19: "Prominent social proof section aligns with high-trust patterns (+15% conversion lift in similar flows)."
    [ text |-> <<80, 114, 111, 109, 105, 110, 101, 110, 116, 32, 115, 111, 99, 105, 97, 108, 32, 112, 114, 111,
                111, 102, 32, 115, 101, 99, 116, 105, 111, 110, 32, 97, 108, 105, 103, 110, 115,
                32, 119, 105, 116, 104, 32, 104, 105, 103, 104, 45, 116, 114, 117, 115, 116, 32,
                112, 97, 116, 116, 101, 114, 110, 115, 32, 40, 43, 49, 53, 37, 32, 99, 111, 110,
                118, 101, 114, 115, 105, 111, 110, 32, 108, 105, 102, 116, 32, 105, 110, 32, 115,
                105, 109, 105, 108, 97, 114, 32, 102, 108, 111, 119, 115, 41, 46>>,
      category |-> "usability", type |-> "positive",
      suggestion |-> <<>> ],
    \* [3] line 25: "The layout feels cluttered with too many elements competing for attention."
    [ text |-> <<84, 104, 101, 32, 108, 97, 121, 111, 117, 116, 32, 102, 101, 101, 108, 115, 32, 99, 108, 117,
                116, 116, 101, 114, 101, 100, 32, 119, 105, 116, 104, 32, 116, 111, 111, 32, 109,
                97, 110, 121, 32, 101, 108, 101, 109, 101, 110, 116, 115, 32, 99, 111, 109, 112,
                101, 116, 105, 110, 103, 32, 102, 111, 114, 32, 97, 116, 116, 101, 110, 116, 105,
                111, 110, 46>>,
      category |-> "usability", type |-> "issue",
      suggestion |-> <<65, 112, 112, 108, 121, 32, 116, 104, 101, 32, 56, 48, 47, 50, 48, 32, 114, 117, 108, 101, 58,
                32, 104, 105, 103, 104, 108, 105, 103, 104, 116, 32, 116, 104, 101, 32, 109, 111,
                115, 116, 32, 105, 109, 112, 111, 114, 116, 97, 110, 116, 32, 50, 48, 37, 32, 111,
                102, 32, 99, 111, 110, 116, 101, 110, 116, 32, 97, 110, 100, 32, 100, 101, 45, 101,
                109, 112, 104, 97, 115, 105, 122, 101, 32, 116, 104, 101, 32, 114, 101, 115, 116,
                32, 117, 115, 105, 110, 103, 32, 119, 104, 105, 116, 101, 115, 112, 97, 99, 101,
                46>> ],
    \* [4] line 31: "Progressive disclosure reduces cognitive load and supports higher completion rates in signup flows."
    [ text |-> <<80, 114, 111, 103, 114, 101, 115, 115, 105, 118, 101, 32, 100, 105, 115, 99, 108, 111, 115, 117,
                114, 101, 32, 114, 101, 100, 117, 99, 101, 115, 32, 99, 111, 103, 110, 105, 116,
                105, 118, 101, 32, 108, 111, 97, 100, 32, 97, 110, 100, 32, 115, 117, 112, 112,
                111, 114, 116, 115, 32, 104, 105, 103, 104, 101, 114, 32, 99, 111, 109, 112, 108,
                101, 116, 105, 111, 110, 32, 114, 97, 116, 101, 115, 32, 105, 110, 32, 115, 105,
                103, 110, 117, 112, 32, 102, 108, 111, 119, 115, 46>>,
      category |-> "usability", type |-> "positive",
      suggestion |-> <<>> ],
    \* [5] line 37: "Information buried below the fold typically sees 50% fewer engagements; key value props may be missed."
    [ text |-> <<73, 110, 102, 111, 114, 109, 97, 116, 105, 111, 110, 32, 98, 117, 114, 105, 101, 100, 32, 98,
                101, 108, 111, 119, 32, 116, 104, 101, 32, 102, 111, 108, 100, 32, 116, 121, 112,
                105, 99, 97, 108, 108, 121, 32, 115, 101, 101, 115, 32, 53, 48, 37, 32, 102, 101,
                119, 101, 114, 32, 101, 110, 103, 97, 103, 101, 109, 101, 110, 116, 115, 59, 32,
                107, 101, 121, 32, 118, 97, 108, 117, 101, 32, 112, 114, 111, 112, 115, 32, 109,
                97, 121, 32, 98, 101, 32, 109, 105, 115, 115, 101, 100, 46>>,
      category |-> "usability", type |-> "issue",
      suggestion |-> <<77, 111, 118, 101, 32, 112, 114, 105, 109, 97, 114, 121, 32, 118, 97, 108, 117, 101, 32, 112,
                114, 111, 112, 111, 115, 105, 116, 105, 111, 110, 32, 97, 110, 100, 32, 67, 84, 65,
                32, 97, 98, 111, 118, 101, 32, 116, 104, 101, 32, 102, 111, 108, 100, 32, 116, 111,
                32, 97, 108, 105, 103, 110, 32, 119, 105, 116, 104, 32, 118, 105, 101, 119, 112,
                111, 114, 116, 32, 98, 101, 110, 99, 104, 109, 97, 114, 107, 115, 46>> ],
    \* [6] line 45: "Visual hierarchy is clear—headings, body text, and actions are well-distinguished."
    [ text |-> <<86, 105, 115, 117, 97, 108, 32, 104, 105, 101, 114, 97, 114, 99, 104, 121, 32, 105, 115, 32, 99,
                108, 101, 97, 114, 8212, 104, 101, 97, 100, 105, 110, 103, 115, 44, 32, 98, 111,
                100, 121, 32, 116, 101, 120, 116, 44, 32, 97, 110, 100, 32, 97, 99, 116, 105, 111,
                110, 115, 32, 97, 114, 101, 32, 119, 101, 108, 108, 45, 100, 105, 115, 116, 105,
                110, 103, 117, 105, 115, 104, 101, 100, 46>>,
      category |-> "hierarchy", type |-> "positive",
      suggestion |-> <<>> ],
    \* [7] line 51: "Typography hierarchy is weak; heading sizes don't create clear distinction between levels."
    [ text |-> <<84, 121, 112, 111, 103, 114, 97, 112, 104, 121, 32, 104, 105, 101, 114, 97, 114, 99, 104, 121,
                32, 105, 115, 32, 119, 101, 97, 107, 59, 32, 104, 101, 97, 100, 105, 110, 103, 32,
                115, 105, 122, 101, 115, 32, 100, 111, 110, 39, 116, 32, 99, 114, 101, 97, 116,
                101, 32, 99, 108, 101, 97, 114, 32, 100, 105, 115, 116, 105, 110, 99, 116, 105,
                111, 110, 32, 98, 101, 116, 119, 101, 101, 110, 32, 108, 101, 118, 101, 108, 115,
                46>>,
      category |-> "hierarchy", type |-> "issue",
      suggestion |-> <<69, 115, 116, 97, 98, 108, 105, 115, 104, 32, 97, 32, 99, 108, 101, 97, 114, 32, 116, 121, 112,
                101, 32, 115, 99, 97, 108, 101, 32, 119, 105, 116, 104, 32, 97, 116, 32, 108, 101,
                97, 115, 116, 32, 50, 58, 49, 32, 114, 97, 116, 105, 111, 32, 98, 101, 116, 119,
                101, 101, 110, 32, 104, 101, 97, 100, 105, 110, 103, 32, 108, 101, 118, 101, 108,
                115, 32, 102, 111, 114, 32, 98, 101, 116, 116, 101, 114, 32, 115, 99, 97, 110, 110,
                105, 110, 103, 46>> ],
    \* [8] line 57: "Clear hierarchy supports faster time-to-decision and can improve funnel metrics and conversion."
    [ text |-> <<67, 108, 101, 97, 114, 32, 104, 105, 101, 114, 97, 114, 99, 104, 121, 32, 115, 117, 112, 112,
                111, 114, 116, 115, 32, 102, 97, 115, 116, 101, 114, 32, 116, 105, 109, 101, 45,
                116, 111, 45, 100, 101, 99, 105, 115, 105, 111, 110, 32, 97, 110, 100, 32, 99, 97,
                110, 32, 105, 109, 112, 114, 111, 118, 101, 32, 102, 117, 110, 110, 101, 108, 32,
                109, 101, 116, 114, 105, 99, 115, 32, 97, 110, 100, 32, 99, 111, 110, 118, 101,
                114, 115, 105, 111, 110, 46>>,
      category |-> "hierarchy", type |-> "positive",
      suggestion |-> <<>> ],
    \* [9] line 63: "Weak visual hierarchy can dilute CTA impact and hurt conversion; primary action should dominate."
    [ text |-> <<87, 101, 97, 107, 32, 118, 105, 115, 117, 97, 108, 32, 104, 105, 101, 114, 97, 114, 99, 104, 121,
                32, 99, 97, 110, 32, 100, 105, 108, 117, 116, 101, 32, 67, 84, 65, 32, 105, 109,
                112, 97, 99, 116, 32, 97, 110, 100, 32, 104, 117, 114, 116, 32, 99, 111, 110, 118,
                101, 114, 115, 105, 111, 110, 59, 32, 112, 114, 105, 109, 97, 114, 121, 32, 97, 99,
                116, 105, 111, 110, 32, 115, 104, 111, 117, 108, 100, 32, 100, 111, 109, 105, 110,
                97, 116, 101, 46>>,
      category |-> "hierarchy", type |-> "issue",
      suggestion |-> <<85, 115, 101, 32, 115, 105, 122, 101, 32, 97, 110, 100, 32, 99, 111, 110, 116, 114, 97, 115, 116,
                32, 115, 111, 32, 116, 104, 101, 32, 109, 97, 105, 110, 32, 97, 99, 116, 105, 111,
                110, 32, 104, 97, 115, 32, 50, 8211, 51, 120, 32, 118, 105, 115, 117, 97, 108, 32,
                119, 101, 105, 103, 104, 116, 32, 111, 118, 101, 114, 32, 115, 101, 99, 111, 110,
                100, 97, 114, 121, 32, 101, 108, 101, 109, 101, 110, 116, 115, 46>> ],
    \* [10] line 69: "The wireframe demonstrates strong information architecture with logical grouping of related elements."
    [ text |-> <<84, 104, 101, 32, 119, 105, 114, 101, 102, 114, 97, 109, 101, 32, 100, 101, 109, 111, 110, 115,
                116, 114, 97, 116, 101, 115, 32, 115, 116, 114, 111, 110, 103, 32, 105, 110, 102,
                111, 114, 109, 97, 116, 105, 111, 110, 32, 97, 114, 99, 104, 105, 116, 101, 99,
                116, 117, 114, 101, 32, 119, 105, 116, 104, 32, 108, 111, 103, 105, 99, 97, 108,
                32, 103, 114, 111, 117, 112, 105, 110, 103, 32, 111, 102, 32, 114, 101, 108, 97,
                116, 101, 100, 32, 101, 108, 101, 109, 101, 110, 116, 115, 46>>,
      category |-> "hierarchy", type |-> "positive",
      suggestion |-> <<>> ],
    \* [11] line 75: "Related content is scattered across the layout, breaking mental models of grouping."
    [ text |-> <<82, 101, 108, 97, 116, 101, 100, 32, 99, 111, 110, 116, 101, 110, 116, 32, 105, 115, 32, 115, 99,
                97, 116, 116, 101, 114, 101, 100, 32, 97, 99, 114, 111, 115, 115, 32, 116, 104,
                101, 32, 108, 97, 121, 111, 117, 116, 44, 32, 98, 114, 101, 97, 107, 105, 110, 103,
                32, 109, 101, 110, 116, 97, 108, 32, 109, 111, 100, 101, 108, 115, 32, 111, 102,
                32, 103, 114, 111, 117, 112, 105, 110, 103, 46>>,
      category |-> "hierarchy", type |-> "issue",
      suggestion |-> <<71, 114, 111, 117, 112, 32, 114, 101, 108, 97, 116, 101, 100, 32, 101, 108, 101, 109, 101, 110,
                116, 115, 32, 117, 115, 105, 110, 103, 32, 118, 105, 115, 117, 97, 108, 32, 112,
                114, 111, 120, 105, 109, 105, 116, 121, 32, 40, 99, 108, 111, 115, 101, 114, 32,
                115, 112, 97, 99, 105, 110, 103, 41, 32, 97, 110, 100, 32, 99, 111, 110, 116, 97,
                105, 110, 101, 114, 115, 32, 116, 111, 32, 105, 109, 112, 114, 111, 118, 101, 32,
                99, 111, 103, 110, 105, 116, 105, 118, 101, 32, 108, 111, 97, 100, 46>> ],
    \* [12] line 83: "Form labels are programmatically associated (WCAG SC 3.3.2 Labels or Instructions), supporting assistive tech."
    [ text |-> <<70, 111, 114, 109, 32, 108, 97, 98, 101, 108, 115, 32, 97, 114, 101, 32, 112, 114, 111, 103, 114,
                97, 109, 109, 97, 116, 105, 99, 97, 108, 108, 121, 32, 97, 115, 115, 111, 99, 105,
                97, 116, 101, 100, 32, 40, 87, 67, 65, 71, 32, 83, 67, 32, 51, 46, 51, 46, 50, 32,
                76, 97, 98, 101, 108, 115, 32, 111, 114, 32, 73, 110, 115, 116, 114, 117, 99, 116,
                105, 111, 110, 115, 41, 44, 32, 115, 117, 112, 112, 111, 114, 116, 105, 110, 103,
                32, 97, 115, 115, 105, 115, 116, 105, 118, 101, 32, 116, 101, 99, 104, 46>>,
      category |-> "accessibility", type |-> "positive",
      suggestion |-> <<>> ],
    \* [13] line 89: "Color alone conveys meaning here, failing WCAG SC 1.4.1 Use of Color; add icons or text."
    [ text |-> <<67, 111, 108, 111, 114, 32, 97, 108, 111, 110, 101, 32, 99, 111, 110, 118, 101, 121, 115, 32,
                109, 101, 97, 110, 105, 110, 103, 32, 104, 101, 114, 101, 44, 32, 102, 97, 105,
                108, 105, 110, 103, 32, 87, 67, 65, 71, 32, 83, 67, 32, 49, 46, 52, 46, 49, 32, 85,
                115, 101, 32, 111, 102, 32, 67, 111, 108, 111, 114, 59, 32, 97, 100, 100, 32, 105,
                99, 111, 110, 115, 32, 111, 114, 32, 116, 101, 120, 116, 46>>,
      category |-> "accessibility", type |-> "issue",
      suggestion |-> <<68, 111, 32, 110, 111, 116, 32, 114, 101, 108, 121, 32, 111, 110, 32, 99, 111, 108, 111, 114, 32,
                97, 108, 111, 110, 101, 59, 32, 112, 97, 105, 114, 32, 119, 105, 116, 104, 32, 108,
                97, 98, 101, 108, 115, 44, 32, 112, 97, 116, 116, 101, 114, 110, 115, 44, 32, 111,
                114, 32, 105, 99, 111, 110, 115, 32, 115, 111, 32, 105, 110, 102, 111, 114, 109,
                97, 116, 105, 111, 110, 32, 105, 115, 32, 97, 118, 97, 105, 108, 97, 98, 108, 101,
                32, 116, 111, 32, 97, 108, 108, 46>> ],
    \* [14] line 95: "Semantic headings meet WCAG SC 1.3.1 Info and Relationships — excellent screen reader support."
    [ text |-> <<83, 101, 109, 97, 110, 116, 105, 99, 32, 104, 101, 97, 100, 105, 110, 103, 115, 32, 109, 101,
                101, 116, 32, 87, 67, 65, 71, 32, 83, 67, 32, 49, 46, 51, 46, 49, 32, 73, 110, 102,
                111, 32, 97, 110, 100, 32, 82, 101, 108, 97, 116, 105, 111, 110, 115, 104, 105,
                112, 115, 32, 8212, 32, 101, 120, 99, 101, 108, 108, 101, 110, 116, 32, 115, 99,
                114, 101, 101, 110, 32, 114, 101, 97, 100, 101, 114, 32, 115, 117, 112, 112, 111,
                114, 116, 46>>,
      category |-> "accessibility", type |-> "positive",
      suggestion |-> <<>> ],
    \* [15] line 101: "Insufficient color contrast (fails WCAG SC 1.4.3 AA 4.5:1). Risk: excludes users with low vision."
    [ text |-> <<73, 110, 115, 117, 102, 102, 105, 99, 105, 101, 110, 116, 32, 99, 111, 108, 111, 114, 32, 99,
                111, 110, 116, 114, 97, 115, 116, 32, 40, 102, 97, 105, 108, 115, 32, 87, 67, 65,
                71, 32, 83, 67, 32, 49, 46, 52, 46, 51, 32, 65, 65, 32, 52, 46, 53, 58, 49, 41, 46,
                32, 82, 105, 115, 107, 58, 32, 101, 120, 99, 108, 117, 100, 101, 115, 32, 117, 115,
                101, 114, 115, 32, 119, 105, 116, 104, 32, 108, 111, 119, 32, 118, 105, 115, 105,
                111, 110, 46>>,
      category |-> "accessibility", type |-> "issue",
      suggestion |-> <<65, 99, 104, 105, 101, 118, 101, 32, 97, 116, 32, 108, 101, 97, 115, 116, 32, 52, 46, 53, 58, 49,
                32, 102, 111, 114, 32, 110, 111, 114, 109, 97, 108, 32, 116, 101, 120, 116, 44, 32,
                51, 58, 49, 32, 102, 111, 114, 32, 108, 97, 114, 103, 101, 32, 116, 101, 120, 116,
                59, 32, 117, 115, 101, 32, 97, 32, 99, 111, 110, 116, 114, 97, 115, 116, 32, 99,
                104, 101, 99, 107, 101, 114, 32, 98, 101, 102, 111, 114, 101, 32, 98, 117, 105,
                108, 100, 46>> ],
    \* [16] line 107: "Logical tab order supports WCAG SC 2.4.3 Focus Order and makes keyboard navigation predictable."
    [ text |-> <<76, 111, 103, 105, 99, 97, 108, 32, 116, 97, 98, 32, 111, 114, 100, 101, 114, 32, 115, 117, 112,
                112, 111, 114, 116, 115, 32, 87, 67, 65, 71, 32, 83, 67, 32, 50, 46, 52, 46, 51,
                32, 70, 111, 99, 117, 115, 32, 79, 114, 100, 101, 114, 32, 97, 110, 100, 32, 109,
                97, 107, 101, 115, 32, 107, 101, 121, 98, 111, 97, 114, 100, 32, 110, 97, 118, 105,
                103, 97, 116, 105, 111, 110, 32, 112, 114, 101, 100, 105, 99, 116, 97, 98, 108,
                101, 46>>,
      category |-> "accessibility", type |-> "positive",
      suggestion |-> <<>> ],
    \* [17] line 113: "Focus indicators may be missing or too subtle (WCAG SC 2.4.7 Focus Visible); keyboard users need clear focus."
    [ text |-> <<70, 111, 99, 117, 115, 32, 105, 110, 100, 105, 99, 97, 116, 111, 114, 115, 32, 109, 97, 121, 32,
                98, 101, 32, 109, 105, 115, 115, 105, 110, 103, 32, 111, 114, 32, 116, 111, 111,
                32, 115, 117, 98, 116, 108, 101, 32, 40, 87, 67, 65, 71, 32, 83, 67, 32, 50, 46,
                52, 46, 55, 32, 70, 111, 99, 117, 115, 32, 86, 105, 115, 105, 98, 108, 101, 41, 59,
                32, 107, 101, 121, 98, 111, 97, 114, 100, 32, 117, 115, 101, 114, 115, 32, 110,
                101, 101, 100, 32, 99, 108, 101, 97, 114, 32, 102, 111, 99, 117, 115, 46>>,
      category |-> "accessibility", type |-> "issue",
      suggestion |-> <<80, 114, 111, 118, 105, 100, 101, 32, 97, 32, 118, 105, 115, 105, 98, 108, 101, 32, 102, 111, 99,
                117, 115, 32, 114, 105, 110, 103, 32, 40, 101, 46, 103, 46, 32, 50, 112, 120, 32,
                111, 117, 116, 108, 105, 110, 101, 41, 32, 102, 111, 114, 32, 97, 108, 108, 32,
                105, 110, 116, 101, 114, 97, 99, 116, 105, 118, 101, 32, 101, 108, 101, 109, 101,
                110, 116, 115, 32, 105, 110, 32, 107, 101, 121, 98, 111, 97, 114, 100, 32, 110, 97,
                118, 105, 103, 97, 116, 105, 111, 110, 46>> ],
    \* [18] line 121: "Navigation placement is intuitive and follows common web conventions."
    [ text |-> <<78, 97, 118, 105, 103, 97, 116, 105, 111, 110, 32, 112, 108, 97, 99, 101, 109, 101, 110, 116, 32,
                105, 115, 32, 105, 110, 116, 117, 105, 116, 105, 118, 101, 32, 97, 110, 100, 32,
                102, 111, 108, 108, 111, 119, 115, 32, 99, 111, 109, 109, 111, 110, 32, 119, 101,
                98, 32, 99, 111, 110, 118, 101, 110, 116, 105, 111, 110, 115, 46>>,
      category |-> "navigation", type |-> "positive",
      suggestion |-> <<>> ],
    \* [19] line 127: "Unclear navigation increases bounce risk; users who can't find next steps often drop off and hurt retention."
    [ text |-> <<85, 110, 99, 108, 101, 97, 114, 32, 110, 97, 118, 105, 103, 97, 116, 105, 111, 110, 32, 105, 110,
                99, 114, 101, 97, 115, 101, 115, 32, 98, 111, 117, 110, 99, 101, 32, 114, 105, 115,
                107, 59, 32, 117, 115, 101, 114, 115, 32, 119, 104, 111, 32, 99, 97, 110, 39, 116,
                32, 102, 105, 110, 100, 32, 110, 101, 120, 116, 32, 115, 116, 101, 112, 115, 32,
                111, 102, 116, 101, 110, 32, 100, 114, 111, 112, 32, 111, 102, 102, 32, 97, 110,
                100, 32, 104, 117, 114, 116, 32, 114, 101, 116, 101, 110, 116, 105, 111, 110, 46>>,
      category |-> "navigation", type |-> "issue",
      suggestion |-> <<65, 100, 100, 32, 98, 114, 101, 97, 100, 99, 114, 117, 109, 98, 115, 32, 111, 114, 32, 97, 32,
                99, 108, 101, 97, 114, 32, 39, 110, 101, 120, 116, 32, 115, 116, 101, 112, 39, 32,
                67, 84, 65, 32, 116, 111, 32, 105, 109, 112, 114, 111, 118, 101, 32, 119, 97, 121,
                102, 105, 110, 100, 105, 110, 103, 32, 97, 110, 100, 32, 114, 101, 100, 117, 99,
                101, 32, 101, 120, 105, 116, 32, 114, 97, 116, 101, 46>> ],
    \* [20] line 133: "Primary navigation items are concise and use language familiar to the target audience."
    [ text |-> <<80, 114, 105, 109, 97, 114, 121, 32, 110, 97, 118, 105, 103, 97, 116, 105, 111, 110, 32, 105,
                116, 101, 109, 115, 32, 97, 114, 101, 32, 99, 111, 110, 99, 105, 115, 101, 32, 97,
                110, 100, 32, 117, 115, 101, 32, 108, 97, 110, 103, 117, 97, 103, 101, 32, 102, 97,
                109, 105, 108, 105, 97, 114, 32, 116, 111, 32, 116, 104, 101, 32, 116, 97, 114,
                103, 101, 116, 32, 97, 117, 100, 105, 101, 110, 99, 101, 46>>,
      category |-> "navigation", type |-> "positive",
      suggestion |-> <<>> ],
    \* [21] line 139: "Too many navigation options create decision paralysis—the paradox of choice."
    [ text |-> <<84, 111, 111, 32, 109, 97, 110, 121, 32, 110, 97, 118, 105, 103, 97, 116, 105, 111, 110, 32, 111,
                112, 116, 105, 111, 110, 115, 32, 99, 114, 101, 97, 116, 101, 32, 100, 101, 99,
                105, 115, 105, 111, 110, 32, 112, 97, 114, 97, 108, 121, 115, 105, 115, 8212, 116,
                104, 101, 32, 112, 97, 114, 97, 100, 111, 120, 32, 111, 102, 32, 99, 104, 111, 105,
                99, 101, 46>>,
      category |-> "navigation", type |-> "issue",
      suggestion |-> <<76, 105, 109, 105, 116, 32, 116, 111, 112, 45, 108, 101, 118, 101, 108, 32, 110, 97, 118, 105,
                103, 97, 116, 105, 111, 110, 32, 116, 111, 32, 53, 45, 55, 32, 105, 116, 101, 109,
                115, 46, 32, 71, 114, 111, 117, 112, 32, 115, 101, 99, 111, 110, 100, 97, 114, 121,
                32, 111, 112, 116, 105, 111, 110, 115, 32, 105, 110, 32, 97, 32, 99, 108, 101, 97,
                114, 32, 109, 101, 110, 117, 32, 104, 105, 101, 114, 97, 114, 99, 104, 121, 46>> ],
    \* [22] line 145: "The back button and exit paths are clearly defined, supporting user exploration."
    [ text |-> <<84, 104, 101, 32, 98, 97, 99, 107, 32, 98, 117, 116, 116, 111, 110, 32, 97, 110, 100, 32, 101,
                120, 105, 116, 32, 112, 97, 116, 104, 115, 32, 97, 114, 101, 32, 99, 108, 101, 97,
                114, 108, 121, 32, 100, 101, 102, 105, 110, 101, 100, 44, 32, 115, 117, 112, 112,
                111, 114, 116, 105, 110, 103, 32, 117, 115, 101, 114, 32, 101, 120, 112, 108, 111,
                114, 97, 116, 105, 111, 110, 46>>,
      category |-> "navigation", type |-> "positive",
      suggestion |-> <<>> ],
    \* [23] line 153: "Form fields are organized logically with related inputs grouped together."
    [ text |-> <<70, 111, 114, 109, 32, 102, 105, 101, 108, 100, 115, 32, 97, 114, 101, 32, 111, 114, 103, 97,
                110, 105, 122, 101, 100, 32, 108, 111, 103, 105, 99, 97, 108, 108, 121, 32, 119,
                105, 116, 104, 32, 114, 101, 108, 97, 116, 101, 100, 32, 105, 110, 112, 117, 116,
                115, 32, 103, 114, 111, 117, 112, 101, 100, 32, 116, 111, 103, 101, 116, 104, 101,
                114, 46>>,
      category |-> "form", type |-> "positive",
      suggestion |-> <<>> ],
    \* [24] line 159: "Required fields are not clearly marked, which may lead to form submission errors."
    [ text |-> <<82, 101, 113, 117, 105, 114, 101, 100, 32, 102, 105, 101, 108, 100, 115, 32, 97, 114, 101, 32,
                110, 111, 116, 32, 99, 108, 101, 97, 114, 108, 121, 32, 109, 97, 114, 107, 101,
                100, 44, 32, 119, 104, 105, 99, 104, 32, 109, 97, 121, 32, 108, 101, 97, 100, 32,
                116, 111, 32, 102, 111, 114, 109, 32, 115, 117, 98, 109, 105, 115, 115, 105, 111,
                110, 32, 101, 114, 114, 111, 114, 115, 46>>,
      category |-> "form", type |-> "issue",
      suggestion |-> <<85, 115, 101, 32, 97, 115, 116, 101, 114, 105, 115, 107, 115, 32, 40, 42, 41, 32, 111, 114, 32,
                39, 114, 101, 113, 117, 105, 114, 101, 100, 39, 32, 108, 97, 98, 101, 108, 115, 44,
                32, 97, 110, 100, 32, 99, 111, 110, 115, 105, 100, 101, 114, 32, 105, 110, 108,
                105, 110, 101, 32, 118, 97, 108, 105, 100, 97, 116, 105, 111, 110, 32, 102, 111,
                114, 32, 98, 101, 116, 116, 101, 114, 32, 117, 115, 101, 114, 32, 102, 101, 101,
                100, 98, 97, 99, 107, 46>> ],
    \* [25] line 165: "Logical form flow and appropriate input types support higher completion rates and lower abandonment."
    [ text |-> <<76, 111, 103, 105, 99, 97, 108, 32, 102, 111, 114, 109, 32, 102, 108, 111, 119, 32, 97, 110, 100,
                32, 97, 112, 112, 114, 111, 112, 114, 105, 97, 116, 101, 32, 105, 110, 112, 117,
                116, 32, 116, 121, 112, 101, 115, 32, 115, 117, 112, 112, 111, 114, 116, 32, 104,
                105, 103, 104, 101, 114, 32, 99, 111, 109, 112, 108, 101, 116, 105, 111, 110, 32,
                114, 97, 116, 101, 115, 32, 97, 110, 100, 32, 108, 111, 119, 101, 114, 32, 97, 98,
                97, 110, 100, 111, 110, 109, 101, 110, 116, 46>>,
      category |-> "form", type |-> "positive",
      suggestion |-> <<>> ],
    \* [26] line 171: "Error states are not considered—users won't know what went wrong if validation fails."
    [ text |-> <<69, 114, 114, 111, 114, 32, 115, 116, 97, 116, 101, 115, 32, 97, 114, 101, 32, 110, 111, 116, 32,
                99, 111, 110, 115, 105, 100, 101, 114, 101, 100, 8212, 117, 115, 101, 114, 115, 32,
                119, 111, 110, 39, 116, 32, 107, 110, 111, 119, 32, 119, 104, 97, 116, 32, 119,
                101, 110, 116, 32, 119, 114, 111, 110, 103, 32, 105, 102, 32, 118, 97, 108, 105,
                100, 97, 116, 105, 111, 110, 32, 102, 97, 105, 108, 115, 46>>,
      category |-> "form", type |-> "issue",
      suggestion |-> <<68, 101, 115, 105, 103, 110, 32, 101, 114, 114, 111, 114, 32, 109, 101, 115, 115, 97, 103, 101,
                115, 32, 116, 104, 97, 116, 32, 97, 114, 101, 32, 115, 112, 101, 99, 105, 102, 105,
                99, 44, 32, 97, 99, 116, 105, 111, 110, 97, 98, 108, 101, 44, 32, 97, 110, 100, 32,
                112, 108, 97, 99, 101, 100, 32, 110, 101, 97, 114, 32, 116, 104, 101, 32, 114, 101,
                108, 101, 118, 97, 110, 116, 32, 102, 105, 101, 108, 100, 46>> ],
    \* [27] line 177: "Long or unclear forms drive abandonment (e.g. 10–15% per extra field); consider shortening or staging."
    [ text |-> <<76, 111, 110, 103, 32, 111, 114, 32, 117, 110, 99, 108, 101, 97, 114, 32, 102, 111, 114, 109,
                115, 32, 100, 114, 105, 118, 101, 32, 97, 98, 97, 110, 100, 111, 110, 109, 101,
                110, 116, 32, 40, 101, 46, 103, 46, 32, 49, 48, 8211, 49, 53, 37, 32, 112, 101,
                114, 32, 101, 120, 116, 114, 97, 32, 102, 105, 101, 108, 100, 41, 59, 32, 99, 111,
                110, 115, 105, 100, 101, 114, 32, 115, 104, 111, 114, 116, 101, 110, 105, 110, 103,
                32, 111, 114, 32, 115, 116, 97, 103, 105, 110, 103, 46>>,
      category |-> "form", type |-> "issue",
      suggestion |-> <<85, 115, 101, 32, 97, 32, 109, 117, 108, 116, 105, 45, 115, 116, 101, 112, 32, 102, 111, 114,
                109, 32, 119, 105, 116, 104, 32, 112, 114, 111, 103, 114, 101, 115, 115, 32, 105,
                110, 100, 105, 99, 97, 116, 111, 114, 32, 116, 111, 32, 105, 109, 112, 114, 111,
                118, 101, 32, 99, 111, 109, 112, 108, 101, 116, 105, 111, 110, 32, 114, 97, 116,
                101, 32, 97, 110, 100, 32, 114, 101, 100, 117, 99, 101, 32, 112, 101, 114, 99, 101,
                105, 118, 101, 100, 32, 101, 102, 102, 111, 114, 116, 46>> ],
    \* [28] line 185: "Touch targets meet or exceed 44x44 CSS px, supporting WCAG SC 2.5.5 Target Size and reducing mis-taps."
    [ text |-> <<84, 111, 117, 99, 104, 32, 116, 97, 114, 103, 101, 116, 115, 32, 109, 101, 101, 116, 32, 111,
                114, 32, 101, 120, 99, 101, 101, 100, 32, 52, 52, 120, 52, 52, 32, 67, 83, 83, 32,
                112, 120, 44, 32, 115, 117, 112, 112, 111, 114, 116, 105, 110, 103, 32, 87, 67, 65,
                71, 32, 83, 67, 32, 50, 46, 53, 46, 53, 32, 84, 97, 114, 103, 101, 116, 32, 83,
                105, 122, 101, 32, 97, 110, 100, 32, 114, 101, 100, 117, 99, 105, 110, 103, 32,
                109, 105, 115, 45, 116, 97, 112, 115, 46>>,
      category |-> "mobile", type |-> "positive",
      suggestion |-> <<>> ],
    \* [29] line 191: "Text appears too small on mobile devices and may require pinch-to-zoom, harming usability."
    [ text |-> <<84, 101, 120, 116, 32, 97, 112, 112, 101, 97, 114, 115, 32, 116, 111, 111, 32, 115, 109, 97, 108,
                108, 32, 111, 110, 32, 109, 111, 98, 105, 108, 101, 32, 100, 101, 118, 105, 99,
                101, 115, 32, 97, 110, 100, 32, 109, 97, 121, 32, 114, 101, 113, 117, 105, 114,
                101, 32, 112, 105, 110, 99, 104, 45, 116, 111, 45, 122, 111, 111, 109, 44, 32, 104,
                97, 114, 109, 105, 110, 103, 32, 117, 115, 97, 98, 105, 108, 105, 116, 121, 46>>,
      category |-> "mobile", type |-> "issue",
      suggestion |-> <<69, 110, 115, 117, 114, 101, 32, 98, 111, 100, 121, 32, 116, 101, 120, 116, 32, 105, 115, 32, 97,
                116, 32, 108, 101, 97, 115, 116, 32, 49, 54, 112, 120, 32, 111, 110, 32, 109, 111,
                98, 105, 108, 101, 32, 116, 111, 32, 112, 114, 101, 118, 101, 110, 116, 32, 97,
                117, 116, 111, 109, 97, 116, 105, 99, 32, 122, 111, 111, 109, 105, 110, 103, 32,
                97, 110, 100, 32, 105, 109, 112, 114, 111, 118, 101, 32, 114, 101, 97, 100, 97, 98,
                105, 108, 105, 116, 121, 46>> ],
    \* [30] line 197: "Responsive layout and reflow support WCAG SC 1.4.10 Reflow; content adapts without horizontal scroll."
    [ text |-> <<82, 101, 115, 112, 111, 110, 115, 105, 118, 101, 32, 108, 97, 121, 111, 117, 116, 32, 97, 110,
                100, 32, 114, 101, 102, 108, 111, 119, 32, 115, 117, 112, 112, 111, 114, 116, 32,
                87, 67, 65, 71, 32, 83, 67, 32, 49, 46, 52, 46, 49, 48, 32, 82, 101, 102, 108, 111,
                119, 59, 32, 99, 111, 110, 116, 101, 110, 116, 32, 97, 100, 97, 112, 116, 115, 32,
                119, 105, 116, 104, 111, 117, 116, 32, 104, 111, 114, 105, 122, 111, 110, 116, 97,
                108, 32, 115, 99, 114, 111, 108, 108, 46>>,
      category |-> "mobile", type |-> "positive",
      suggestion |-> <<>> ],
    \* [31] line 203: "Horizontal scrolling is required, which breaks mobile UX patterns and frustrates users."
    [ text |-> <<72, 111, 114, 105, 122, 111, 110, 116, 97, 108, 32, 115, 99, 114, 111, 108, 108, 105, 110, 103,
                32, 105, 115, 32, 114, 101, 113, 117, 105, 114, 101, 100, 44, 32, 119, 104, 105,
                99, 104, 32, 98, 114, 101, 97, 107, 115, 32, 109, 111, 98, 105, 108, 101, 32, 85,
                88, 32, 112, 97, 116, 116, 101, 114, 110, 115, 32, 97, 110, 100, 32, 102, 114, 117,
                115, 116, 114, 97, 116, 101, 115, 32, 117, 115, 101, 114, 115, 46>>,
      category |-> "mobile", type |-> "issue",
      suggestion |-> <<69, 110, 115, 117, 114, 101, 32, 97, 108, 108, 32, 99, 111, 110, 116, 101, 110, 116, 32, 102,
                105, 116, 115, 32, 119, 105, 116, 104, 105, 110, 32, 116, 104, 101, 32, 118, 105,
                101, 119, 112, 111, 114, 116, 32, 119, 105, 100, 116, 104, 46, 32, 85, 115, 101,
                32, 114, 101, 115, 112, 111, 110, 115, 105, 118, 101, 32, 98, 114, 101, 97, 107,
                112, 111, 105, 110, 116, 115, 32, 97, 110, 100, 32, 102, 108, 101, 120, 105, 98,
                108, 101, 32, 108, 97, 121, 111, 117, 116, 115, 46>> ],
    \* [32] line 209: "Thumb-friendly navigation placement makes the interface easy to use one-handed."
    [ text |-> <<84, 104, 117, 109, 98, 45, 102, 114, 105, 101, 110, 100, 108, 121, 32, 110, 97, 118, 105, 103,
                97, 116, 105, 111, 110, 32, 112, 108, 97, 99, 101, 109, 101, 110, 116, 32, 109, 97,
                107, 101, 115, 32, 116, 104, 101, 32, 105, 110, 116, 101, 114, 102, 97, 99, 101,
                32, 101, 97, 115, 121, 32, 116, 111, 32, 117, 115, 101, 32, 111, 110, 101, 45, 104,
                97, 110, 100, 101, 100, 46>>,
      category |-> "mobile", type |-> "positive",
      suggestion |-> <<>> ],
    \* [33] line 215: "Touch targets below 44x44 CSS px can fail WCAG SC 2.5.5 Target Size (Level AAA); risk of mis-taps."
    [ text |-> <<84, 111, 117, 99, 104, 32, 116, 97, 114, 103, 101, 116, 115, 32, 98, 101, 108, 111, 119, 32, 52,
                52, 120, 52, 52, 32, 67, 83, 83, 32, 112, 120, 32, 99, 97, 110, 32, 102, 97, 105,
                108, 32, 87, 67, 65, 71, 32, 83, 67, 32, 50, 46, 53, 46, 53, 32, 84, 97, 114, 103,
                101, 116, 32, 83, 105, 122, 101, 32, 40, 76, 101, 118, 101, 108, 32, 65, 65, 65,
                41, 59, 32, 114, 105, 115, 107, 32, 111, 102, 32, 109, 105, 115, 45, 116, 97, 112,
                115, 46>>,
      category |-> "mobile", type |-> "issue",
      suggestion |-> <<85, 115, 101, 32, 109, 105, 110, 105, 109, 117, 109, 32, 52, 52, 120, 52, 52, 112, 120, 32, 116,
                111, 117, 99, 104, 32, 116, 97, 114, 103, 101, 116, 115, 32, 97, 110, 100, 32, 97,
                100, 101, 113, 117, 97, 116, 101, 32, 115, 112, 97, 99, 105, 110, 103, 32, 98, 101,
                116, 119, 101, 101, 110, 32, 105, 110, 116, 101, 114, 97, 99, 116, 105, 118, 101,
                32, 101, 108, 101, 109, 101, 110, 116, 115, 46>> ]
  >>

(***************************************************************************)
(* Sequences                                                               *)
(***************************************************************************)
Range(s) == {s[i] : i \in 1..Len(s)}

\* array.filter(test)
Filter(s, Test(_)) == SelectSeq(s, Test)

\* array.slice(0, n)
Slice(s, n) == SubSeq(s, 1, IF n < Len(s) THEN n ELSE Len(s))

\* [...new Set(array)]: the first occurrence of every element, in order
RECURSIVE Unique(_)
Unique(s) ==
    IF s = <<>> THEN <<>>
    ELSE LET front == Unique(SubSeq(s, 1, Len(s) - 1))
             x == s[Len(s)]
         IN  IF x \in Range(front) THEN front ELSE Append(front, x)

\* where a stable sort puts element x in the sorted run of indices: before the
\* first element that x strictly precedes
InsertSorted(run, x, before) ==
    LET later == {i \in 1..Len(run) : before[x, run[i]]}
        at == IF later = {} THEN Len(run) + 1
              ELSE CHOOSE i \in later : \A j \in later : i <= j
    IN  SubSeq(run, 1, at - 1) \o <<x>> \o SubSeq(run, at, Len(run))

\* the order in which a stable sort leaves the indices 1..n, before[i, j]
\* being compare(element i, element j) < 0
RECURSIVE SortedIndices(_, _)
SortedIndices(n, before) ==
    IF n = 0 THEN <<>>
    ELSE InsertSorted(SortedIndices(n - 1, before), n, before)

\* [...array].sort(compare), Before(a, b) being compare(a, b) < 0; the sort of
\* ECMAScript 2019 is stable
StableSort(s, Before(_, _)) ==
    LET order == SortedIndices(Len(s), [i, j \in 1..Len(s) |-> Before(s[i], s[j])])
    IN  [k \in 1..Len(s) |-> s[order[k]]]

(***************************************************************************)
(* isStakeholderStyle, isAccessibilityExpertStyle, isGenericStyle          *)
(***************************************************************************)
\* `${phrase.text || ''} ${phrase.suggestion || ''}`.toLowerCase()
StyleString(phrase) == ToLowerCase(phrase.text \o Space \o phrase.suggestion)

\* /conversion|...|value props|\d+%\s*(lift|fewer|per)/i.test(s)
StakeholderTest(s) ==
    \E i \in 1..Len(s) :
        \/ \E w \in Range(StakeholderWords) : MatchAt(s, i, w)
        \/ /\ IsDigit(s[i])
           /\ MatchAt(s, i + 1, <<37>>)
           /\ \E w \in Range(PercentWords) : MatchSpacesThen(s, i + 2, w)

\* /wcag|sc\s*1\.|sc\s*2\.|sc\s*3\.|4\.5:1|...|info and relationships/i.test(s)
AccessibilityTest(s) ==
    \E i \in 1..Len(s) :
        \/ \E w \in Range(AccessibilityWords) : MatchAt(s, i, w)
        \/ /\ MatchAt(s, i, Sc)
           /\ \E w \in Range(ScNumbers) : MatchSpacesThen(s, i + 2, w)

\* the phrases the generator classifies: the table and the synthetic entry
ResponsivePhrase ==
    [text |-> ResponsiveText, category |-> "mobile", type |-> "issue",
     suggestion |-> ResponsiveSuggestion]

StyleKey(phrase) == <<phrase.text, phrase.suggestion>>

StyleKeys == {StyleKey(p) : p \in Range(feedbackPhrases) \cup {ResponsivePhrase}}

\* the two tests, evaluated once per phrase
StakeholderKeys ==
    {k \in StyleKeys : StakeholderTest(ToLowerCase(k[1] \o Space \o k[2]))}

AccessibilityKeys ==
    {k \in StyleKeys : AccessibilityTest(ToLowerCase(k[1] \o Space \o k[2]))}

isStakeholderStyle(phrase) ==
    IF StyleKey(phrase) \in StyleKeys
    THEN StyleKey(phrase) \in StakeholderKeys
    ELSE StakeholderTest(StyleString(phrase))

isAccessibilityExpertStyle(phrase) ==
    IF StyleKey(phrase) \in StyleKeys
    THEN StyleKey(phrase) \in AccessibilityKeys
    ELSE AccessibilityTest(StyleString(phrase))

isGenericStyle(phrase) ==
    ~isStakeholderStyle(phrase) /\ ~isAccessibilityExpertStyle(phrase)

(***************************************************************************)
(* extractKeywords, selectRelevantCategories                               *)
(***************************************************************************)
\* a JavaScript value given as description: a string, null, or a number (chars
\* is then String(value))
StringValue(chars) == [type |-> "string", chars |-> chars]
NullValue == [type |-> "null", chars |-> <<>>]
NumberValue(chars) == [type |-> "number", chars |-> chars]

\* String(value ?? '')
ToStr(value) == value.chars

\* !description || typeof description !== 'string'
NotAText(descr) == descr.type # "string" \/ descr.chars = <<>>

\* \b at the gap before position i
IsWordAt(s, i) == i \in 1..Len(s) /\ IsWordChar(s[i])
WordBoundary(s, i) == IsWordAt(s, i - 1) # IsWordAt(s, i)

\* one alternative matches s at position i, ignoring case
AltMatchAt(s, i, alt) ==
    /\ i + Len(alt) - 1 <= Len(s)
    /\ \A k \in 1..Len(alt) :
          IF alt[k] = -1
          THEN ~IsLineTerminator(s[i + k - 1])
          ELSE LowerChar(s[i + k - 1]) = alt[k]

\* /\b(alt|alt|...)\b/gi.test(s) on a new pattern object (lastIndex 0)
PatternTest(pattern, s) ==
    \E i \in 1..Len(s) :
        /\ WordBoundary(s, i)
        /\ \E a \in 1..Len(pattern) :
              /\ AltMatchAt(s, i, pattern[a])
              /\ WordBoundary(s, i + Len(pattern[a]))

extractKeywords(descr) ==
    IF NotAText(descr) THEN <<>>
    ELSE LET s == descr.chars
             Push(keywords, pattern, keyword) ==
                 IF PatternTest(pattern, s) THEN Append(keywords, keyword) ELSE keywords
             k1 == Push(<<>>, navPattern, "navigation")
             k2 == Push(k1, formPattern, "form")
             k3 == Push(k2, layoutPattern, "hierarchy")
             k4 == Push(k3, mobilePattern, "mobile")
             k5 == Push(k4, usabilityPattern, "usability")
             k6 == Push(k5, accessibilityPattern, "accessibility")
         IN  Unique(k6)

\* selectRelevantCategories without the two categories always included
selectRelevantCategoriesKeywordsOnly(keywords) == keywords

\* selectRelevantCategories that ignores the keywords
selectRelevantCategoriesDefault(keywords) == <<"usability", "hierarchy">>

\* selectRelevantCategories that offers all six categories when no keyword is found
selectRelevantCategoriesAll(keywords) ==
    IF Len(keywords) > 0
    THEN Unique(keywords \o <<"usability", "hierarchy">>)
    ELSE <<"usability", "hierarchy", "accessibility", "navigation", "form", "mobile">>

selectRelevantCategories(keywords) ==
    IF Len(keywords) > 0
    THEN Unique(keywords \o <<"usability", "hierarchy">>)
    ELSE <<"usability", "hierarchy">>

(***************************************************************************)
(* filterByPersona                                                         *)
(***************************************************************************)
\* the priorities with the first profile of the table, End-User, as the default
PreferredDefaultFirst(pers) ==
    CASE pers = EndUser -> <<"usability", "navigation", "mobile">>
      [] pers = Stakeholder -> <<"usability", "hierarchy">>
      [] pers = AccessibilityExpert -> <<"accessibility", "mobile">>
      [] pers = GeneralDesigner -> <<"hierarchy", "usability", "navigation">>
      [] OTHER -> <<"usability", "navigation", "mobile">>

\* personaPriorities[persona] || personaPriorities['General Designer']
Preferred(pers) ==
    CASE pers = EndUser -> <<"usability", "navigation", "mobile">>
      [] pers = Stakeholder -> <<"usability", "hierarchy">>
      [] pers = AccessibilityExpert -> <<"accessibility", "mobile">>
      [] pers = GeneralDesigner -> <<"hierarchy", "usability", "navigation">>
      [] OTHER -> <<"hierarchy", "usability", "navigation">>

\* the comparator of filterByPersona returns a negative number
PriorityBefore(a, b, pers) ==
    LET aIsPreferred == a.category \in Range(Preferred(pers))
        bIsPreferred == b.category \in Range(Preferred(pers))
    IN  IF aIsPreferred /\ ~bIsPreferred THEN TRUE
        ELSE IF ~aIsPreferred /\ bIsPreferred THEN FALSE
        ELSE a.type = "issue" /\ b.type = "positive"

\* filterByPersona as a filter: the items of the preferred categories only
filterByPersonaPreferredOnly(items, pers) ==
    LET IsPreferred(item) == item.category \in Range(Preferred(pers))
    IN  Filter(items, IsPreferred)

\* filterByPersona that returns the list in the order it was given
filterByPersonaUnsorted(items, pers) == items

filterByPersona(items, pers) ==
    IF Len(items) = 0 THEN items
    ELSE StableSort(items, LAMBDA a, b : PriorityBefore(a, b, pers))

\* the array feedbacks after filterByPersona(feedbacks, persona): the sort works
\* on the copy [...feedbacks]
filterByPersonaArgument(items, pers) == items

(***************************************************************************)
(* selectRandomPhrases, generateImageBasedFeedback                         *)
(***************************************************************************)
\* { ...phrase, id }
WithId(phrase, id) ==
    [text |-> phrase.text, category |-> phrase.category, type |-> phrase.type,
     suggestion |-> phrase.suggestion, id |-> id]

\* array.map((p, i) => ({ ...p, id: idOf(i) })), i counting from 0
MapWithId(s, IdOf(_)) == [i \in 1..Len(s) |-> WithId(s[i], IdOf(i - 1))]

\* a style filter that lets every phrase of the pool through
StyleFilterAnyStyle(pool, whole, pers) == pool

\* the restriction of a pool to the style of the persona, with its fallback:
\* pool is the pool so far, whole the pool the fallback starts again from
StyleFilter(pool, whole, pers) ==
    IF pers = Stakeholder
    THEN LET styled == Filter(pool, isStakeholderStyle)
         IN  IF Len(styled) = 0 THEN Filter(whole, isGenericStyle) ELSE styled
    ELSE IF pers = AccessibilityExpert
    THEN LET styled == Filter(pool, isAccessibilityExpertStyle)
         IN  IF Len(styled) = 0 THEN Filter(whole, isGenericStyle) ELSE styled
    ELSE LET styled == Filter(pool, isGenericStyle)
         IN  IF Len(styled) = 0 THEN whole ELSE styled

\* the sort keys simpleHash(text + suffix) of a pool, in pool order
RECURSIVE SortKeys(_, _, _, _)
SortKeys(pool, suffix, i, keys) ==
    IF i > Len(pool) THEN keys
    ELSE SortKeys(pool, suffix, i + 1, Append(keys, simpleHash(pool[i].text \o suffix)))

\* a pool left in the order of the table
HashOrderedAsGiven(pool, suffix) == pool

\* [...pool].sort((a, b) => simpleHash(a.text + suffix) - simpleHash(b.text + suffix) || 0)
\* (the keys are computed before the sort is entered, to keep the evaluation shallow)
HashOrdered(pool, suffix) ==
    LET keys == SortKeys(pool, suffix, 1, <<>>)
        order == SortedIndices(Len(pool),
                     [i, j \in 1..Len(pool) |-> NumLess(keys[i], keys[j])])
    IN  IF Len(keys) = Len(pool)
        THEN [k \in 1..Len(pool) |-> pool[order[k]]]
        ELSE pool

Min(a, b) == IF a < b THEN a ELSE b
Max(a, b) == IF a > b THEN a ELSE b

\* called with count = null
selectRandomPhrases(categories, pers, seed) ==
    LET InCategories(p) == p.category \in Range(categories)
        byCategory == Filter(feedbackPhrases, InCategories)
        relevantPhrases == StyleFilter(byCategory, byCategory, pers)
        ordered == HashOrdered(relevantPhrases, NumToString(seed))
        targetCount == 6 + NumMod(seed, 3)
        selectedCount == Min(Min(Max(6, targetCount), 8), Len(ordered))
    IN  IF Len(relevantPhrases) = 0
        THEN MapWithId(Slice(feedbackPhrases, Min(4, Len(feedbackPhrases))),
                 LAMBDA i : IdFeedback \o NumToString(seed) \o IdDashFallback \o IntToString(i))
        ELSE MapWithId(Slice(ordered, selectedCount),
                 LAMBDA i : IdFeedback \o NumToString(seed) \o Dash \o IntToString(i))

\* image metadata: null, or an object whose width and height are numbers or
\* are missing (undefined)
undefined == -1
NullImage == [isNull |-> TRUE, width |-> undefined, height |-> undefined]
Image(w, h) == [isNull |-> FALSE, width |-> w, height |-> h]

\* a dimension counted as present as soon as it is not missing, zero included
TruthyWhenDefined(n) == n # undefined

\* the truthiness of a dimension
Truthy(n) == n # undefined /\ n # 0

\* a heuristic whose second test is skipped when the first has fired
generateImageBasedFeedbackExclusive(image, pers, seed) ==
    LET IsMobile(p) == p.category = "mobile"
        allMobile == Filter(feedbackPhrases, IsMobile)
        mobilePhrases == StyleFilter(allMobile, allMobile, pers)
        index == NumMod(seed, Len(mobilePhrases))
        mobile ==
            IF image.width < image.height \/ image.width < 768
            THEN IF Len(mobilePhrases) > 0
                 THEN <<WithId(mobilePhrases[index + 1], IdImageMobile \o NumToString(seed))>>
                 ELSE <<>>
            ELSE <<>>
        responsive ==
            IF image.width > 1920 /\ mobile = <<>>
            THEN <<WithId(ResponsivePhrase, IdImageResponsive \o NumToString(seed))>>
            ELSE <<>>
    IN  IF image.isNull THEN <<>>
        ELSE IF Truthy(image.width) /\ Truthy(image.height)
        THEN mobile \o responsive
        ELSE <<>>

\* image items numbered like the primary items: the mobile item gets the id
\* feedback-{seed}-0
generateImageBasedFeedbackPrimaryId(image, pers, seed) ==
    LET IsMobile(p) == p.category = "mobile"
        allMobile == Filter(feedbackPhrases, IsMobile)
        mobilePhrases == StyleFilter(allMobile, allMobile, pers)
        index == NumMod(seed, Len(mobilePhrases))
        mobile ==
            IF image.width < image.height \/ image.width < 768
            THEN IF Len(mobilePhrases) > 0
                 THEN <<WithId(mobilePhrases[index + 1],
                               IdFeedback \o NumToString(seed) \o Dash \o IntToString(0))>>
                 ELSE <<>>
            ELSE <<>>
        responsive ==
            IF image.width > 1920
            THEN <<WithId(ResponsivePhrase, IdImageResponsive \o NumToString(seed))>>
            ELSE <<>>
    IN  IF image.isNull THEN <<>>
        ELSE IF Truthy(image.width) /\ Truthy(image.height)
        THEN mobile \o responsive
        ELSE <<>>

\* heuristics that trust the flags of the analysis instead of the dimensions
generateImageBasedFeedbackFromFlags(image, pers, seed) ==
    LET IsMobile(p) == p.category = "mobile"
        allMobile == Filter(feedbackPhrases, IsMobile)
        mobilePhrases == StyleFilter(allMobile, allMobile, pers)
        index == NumMod(seed, Len(mobilePhrases))
        mobile ==
            IF image.isMobileFriendly
            THEN IF Len(mobilePhrases) > 0
                 THEN <<WithId(mobilePhrases[index + 1], IdImageMobile \o NumToString(seed))>>
                 ELSE <<>>
            ELSE <<>>
        responsive ==
            IF image.hasLargeDimensions
            THEN <<WithId(ResponsivePhrase, IdImageResponsive \o NumToString(seed))>>
            ELSE <<>>
    IN  IF image.isNull THEN <<>>
        ELSE IF Truthy(image.width) /\ Truthy(image.height)
        THEN mobile \o responsive
        ELSE <<>>

generateImageBasedFeedback(image, pers, seed) ==
    LET IsMobile(p) == p.category = "mobile"
        allMobile == Filter(feedbackPhrases, IsMobile)
        mobilePhrases == StyleFilter(allMobile, allMobile, pers)
        index == NumMod(seed, Len(mobilePhrases))
        mobile ==
            \* aspectRatio = width / height < 1
            IF image.width < image.height \/ image.width < 768
            THEN IF Len(mobilePhrases) > 0
                 THEN <<WithId(mobilePhrases[index + 1], IdImageMobile \o NumToString(seed))>>
                 ELSE <<>>
            ELSE <<>>
        responsive ==
            IF image.width > 1920
            THEN <<WithId(ResponsivePhrase, IdImageResponsive \o NumToString(seed))>>
            ELSE <<>>
    IN  IF image.isNull THEN <<>>
        ELSE IF Truthy(image.width) /\ Truthy(image.height)
        THEN mobile \o responsive
        ELSE <<>>

(***************************************************************************)
(* getInputSeed, generateFeedback                                          *)
(***************************************************************************)
\* a seed that also depends on how many calls were made before
getInputSeedPerCall(descr, image, pers) ==
    LET desc == Trim(ToStr(descr))
        imageId ==
            IF ~image.isNull /\ image.width # undefined /\ image.height # undefined
            THEN IntToString(image.width) \o Dash \o IntToString(image.height)
            ELSE <<>>
    IN  simpleHash(desc \o Bar \o imageId \o Bar \o pers \o IntToString(generations + paddedCalls))

\* a seed taken from the description as typed, not trimmed
getInputSeedUntrimmed(descr, image, pers) ==
    LET desc == ToStr(descr)
        imageId ==
            IF ~image.isNull /\ image.width # undefined /\ image.height # undefined
            THEN IntToString(image.width) \o Dash \o IntToString(image.height)
            ELSE <<>>
    IN  simpleHash(desc \o Bar \o imageId \o Bar \o pers)

getInputSeed(descr, image, pers) ==
    LET desc == Trim(ToStr(descr))
        imageId ==
            IF ~image.isNull /\ image.width # undefined /\ image.height # undefined
            THEN IntToString(image.width) \o Dash \o IntToString(image.height)
            ELSE <<>>
    IN  simpleHash(desc \o Bar \o imageId \o Bar \o pers)

\* feedback.text.toLowerCase().trim()
TextKey(feedback) == Trim(ToLowerCase(feedback.text))

\* the filter over seenTexts from item i on: seenTexts holds the text keys of the
\* items before i, kept the items that passed
RECURSIVE FilterSeen(_, _, _, _)
FilterSeen(items, i, seenTexts, kept) ==
    IF i > Len(items) THEN kept
    ELSE LET textKey == TextKey(items[i])
         IN  IF textKey \in seenTexts
             THEN FilterSeen(items, i + 1, seenTexts, kept)
             ELSE FilterSeen(items, i + 1, seenTexts \cup {textKey},
                             Append(kept, items[i]))

\* no removal of repeated texts
DropSeenKeepAll(items) == items

DropSeen(items) == FilterSeen(items, 1, {}, <<>>)

\* the two categories appended for Accessibility Expert whether or not the
\* keywords already hold them
WorkingCategoriesAppendBoth(descr, pers) ==
    LET categories == selectRelevantCategories(extractKeywords(descr))
    IN  IF pers = AccessibilityExpert
        THEN categories \o <<"accessibility", "mobile">>
        ELSE categories

\* the categories generateFeedback passes to selectRandomPhrases
WorkingCategories(descr, pers) ==
    LET categories == selectRelevantCategories(extractKeywords(descr))
        NotIncluded(c) == c \notin Range(categories)
    IN  IF pers = AccessibilityExpert
        THEN categories \o Filter(<<"accessibility", "mobile">>, NotIncluded)
        ELSE categories

\* the top-up to six items
TopUp(items, pers, seed) ==
    LET remaining == 6 - Len(items)
        usedTexts == {TextKey(items[i]) : i \in 1..Len(items)}
        Unused(p) == TextKey(p) \notin usedTexts
        unused == Filter(feedbackPhrases, Unused)
        pool == StyleFilter(unused, unused, pers)
        ordered == HashOrdered(pool, NumToString(seed) \o FallbackWord)
    IN  MapWithId(Slice(ordered, remaining),
            LAMBDA i : IdFeedbackFallback \o NumToString(seed) \o Dash \o IntToString(i))

\* the list returned by selectRandomPhrases(categories, null, persona, seed)
PrimaryList(descr, image, pers) ==
    selectRandomPhrases(WorkingCategories(descr, pers), pers,
                        getInputSeed(descr, image, pers))

\* what generateFeedback appends to it: if (imageData) { ... }
ImageList(descr, image, pers) ==
    IF ~image.isNull
    THEN generateImageBasedFeedback(image, pers,
                                    getInputSeed(descr, image, pers))
    ELSE <<>>

\* no limit of eight
TruncateNever(items) == items

\* if (feedbacks.length > 8) feedbacks = feedbacks.slice(0, 8)
Truncate(items) ==
    IF Len(items) > 8 THEN Slice(items, 8) ELSE items

generateFeedback(descr, image, pers) ==
    LET seed == getInputSeed(descr, image, pers)
        selected == selectRandomPhrases(WorkingCategories(descr, pers), pers, seed)
        imageFeedbacks ==
            IF ~image.isNull THEN generateImageBasedFeedback(image, pers, seed) ELSE <<>>
        merged == selected \o imageFeedbacks
        top == Truncate(filterByPersona(DropSeen(merged), pers))
    IN  IF Len(top) < 6 /\ Len(feedbackPhrases) >= 6
        THEN top \o TopUp(top, pers, seed)
        ELSE top

(***************************************************************************)
(* The inputs of the model                                                 *)
(***************************************************************************)
\* "Login page with email field, password field, and submit button"
DescLogin ==
    <<76, 111, 103, 105, 110, 32, 112, 97, 103, 101, 32, 119, 105, 116, 104, 32, 101, 109, 97, 105,
    108, 32, 102, 105, 101, 108, 100, 44, 32, 112, 97, 115, 115, 119, 111, 114, 100, 32, 102,
    105, 101, 108, 100, 44, 32, 97, 110, 100, 32, 115, 117, 98, 109, 105, 116, 32, 98, 117,
    116, 116, 111, 110>>

\* "Mobile app wireframe with cards and buttons"
DescMobileApp ==
    <<77, 111, 98, 105, 108, 101, 32, 97, 112, 112, 32, 119, 105, 114, 101, 102, 114, 97, 109, 101,
    32, 119, 105, 116, 104, 32, 99, 97, 114, 100, 115, 32, 97, 110, 100, 32, 98, 117, 116, 116,
    111, 110, 115>>

\* "Dashboard layout with multiple sections"
DescDashboard ==
    <<68, 97, 115, 104, 98, 111, 97, 114, 100, 32, 108, 97, 121, 111, 117, 116, 32, 119, 105, 116,
    104, 32, 109, 117, 108, 116, 105, 112, 108, 101, 32, 115, 101, 99, 116, 105, 111, 110, 115>>

\* "Website with navigation menu in header and sidebar links"
DescWebsite ==
    <<87, 101, 98, 115, 105, 116, 101, 32, 119, 105, 116, 104, 32, 110, 97, 118, 105, 103, 97, 116,
    105, 111, 110, 32, 109, 101, 110, 117, 32, 105, 110, 32, 104, 101, 97, 100, 101, 114, 32,
    97, 110, 100, 32, 115, 105, 100, 101, 98, 97, 114, 32, 108, 105, 110, 107, 115>>

\* "Login page with email field and button"
DescLoginShort ==
    <<76, 111, 103, 105, 110, 32, 112, 97, 103, 101, 32, 119, 105, 116, 104, 32, 101, 109, 97, 105,
    108, 32, 102, 105, 101, 108, 100, 32, 97, 110, 100, 32, 98, 117, 116, 116, 111, 110>>

\* "Homepage with hero section, navigation, and call-to-action button"
DescHomepage ==
    <<72, 111, 109, 101, 112, 97, 103, 101, 32, 119, 105, 116, 104, 32, 104, 101, 114, 111, 32,
    115, 101, 99, 116, 105, 111, 110, 44, 32, 110, 97, 118, 105, 103, 97, 116, 105, 111, 110,
    44, 32, 97, 110, 100, 32, 99, 97, 108, 108, 45, 116, 111, 45, 97, 99, 116, 105, 111, 110,
    32, 98, 117, 116, 116, 111, 110>>

\* "Platform information overview"
DescPlatform ==
    <<80, 108, 97, 116, 102, 111, 114, 109, 32, 105, 110, 102, 111, 114, 109, 97, 116, 105, 111,
    110, 32, 111, 118, 101, 114, 118, 105, 101, 119>>

\* "Accessible UI with keyboard focus and color contrast for screen reader users"
DescAccessible ==
    <<65, 99, 99, 101, 115, 115, 105, 98, 108, 101, 32, 85, 73, 32, 119, 105, 116, 104, 32, 107,
    101, 121, 98, 111, 97, 114, 100, 32, 102, 111, 99, 117, 115, 32, 97, 110, 100, 32, 99, 111,
    108, 111, 114, 32, 99, 111, 110, 116, 114, 97, 115, 116, 32, 102, 111, 114, 32, 115, 99,
    114, 101, 101, 110, 32, 114, 101, 97, 100, 101, 114, 32, 117, 115, 101, 114, 115>>

\* "42"
DescFortyTwo ==
    <<52, 50>>

\* "  "
PadLeft ==
    <<32, 32>>

\* "\t\u00a0\n"
PadRight ==
    <<9, 160, 10>>

\* the descriptions a call is made with: the empty string, nine texts, null,
\* and the number 42
Descriptions ==
    {StringValue(<<>>), StringValue(DescLogin), StringValue(DescMobileApp),
     StringValue(DescDashboard), StringValue(DescWebsite), StringValue(DescLoginShort),
     StringValue(DescHomepage), StringValue(DescPlatform), StringValue(DescAccessible),
     NullValue, NumberValue(DescFortyTwo)}

\* no image; a phone portrait; a wide desktop; a tall image wider than 1920;
\* a mid-size landscape
Images ==
    {NullImage, Image(375, 667), Image(2400, 1200), Image(2000, 3000), Image(800, 600)}

Personas == {EndUser, Stakeholder, AccessibilityExpert, GeneralDesigner}

\* white space put around a description: <<leading, trailing>>
Paddings == {<<PadLeft, <<>>>>, <<<<>>, PadRight>>}

Padded(descr, pad) == StringValue(pad[1] \o descr.chars \o pad[2])

MaxGenerations == 2
MaxPaddedCalls == 1

(***************************************************************************)
(* The calls of generateFeedback                                           *)
(***************************************************************************)
generatorVars == <<description, imageData, persona, feedbacks, firstFeedbacks,
                   paddedDescription, paddedFeedbacks, generations, paddedCalls>>

selectorVars == <<selectorCategories, selectorPersona, selectorSeed, selection>>

stepsVars == <<stepFeedbacks, stepPersona, nextStepsSuggestions>>

appVars == <<app, localStorage, saveTimeout, notesSaveTimeout, generating, exporting,
             resetTimers, analyzing, alertMessage, events, cleared, lastSaved>>

heuristicVars == <<heuristicImage, heuristicPersona, heuristicSeed, heuristicCalled,
                   additionalFeedbacks>>

\* the variables of the calls of single functions
prioritizerVars == <<prioritizerFeedbacks, prioritizerGiven, prioritizerPersona,
                     prioritizerCalled, sortedFeedbacks>>

hashVars == <<hashInput, hashCalled, hashValue>>

metadataVars == <<metadataDescription, metadataPersona, metadataAnalyzed, metadataAltered,
                  metadataCalled, metadataSeeds, metadataFeedbacks>>

pureVars == <<heuristicVars, prioritizerVars, hashVars, metadataVars>>

vars == <<generatorVars, selectorVars, stepsVars, appVars, pureVars>>

\* no call of the selector on its own is under study
SelectorIdle ==
    /\ selectorCategories = <<>>
    /\ selectorPersona = <<>>
    /\ selectorSeed = <<0, 0>>
    /\ selection = <<>>

\* no call of generateNextTestSteps is under study
StepsIdle ==
    /\ stepFeedbacks = <<>>
    /\ stepPersona = <<>>
    /\ nextStepsSuggestions = <<>>

\* no file chosen in the file input
NoFile == [name |-> <<>>, size |-> 0, width |-> undefined, height |-> undefined]

\* the state of App after useState: lines 19-37
DefaultApp ==
    [description |-> <<>>,
     imageFile |-> NoFile,
     imageData |-> NullImage,
     selectedPersona |-> GeneralDesigner,
     feedbacks |-> <<>>,
     userNotes |-> {},
     isGenerating |-> FALSE,
     lastGeneratedDescription |-> <<>>,
     lastGeneratedImageIdentifier |-> <<>>,
     lastGeneratedPersona |-> <<>>]

\* no page is under study
AppIdle ==
    /\ app = DefaultApp
    /\ localStorage = <<>>
    /\ saveTimeout = <<>>
    /\ notesSaveTimeout = <<>>
    /\ generating = <<>>
    /\ exporting = 0
    /\ resetTimers = 0
    /\ analyzing = <<>>
    /\ alertMessage = <<>>
    /\ events = 0
    /\ cleared = <<>>
    /\ lastSaved = <<>>

\* no call of generateImageBasedFeedback on its own is under study
HeuristicIdle ==
    /\ heuristicImage = NullImage
    /\ heuristicPersona = <<>>
    /\ heuristicSeed = <<0, 0>>
    /\ heuristicCalled = FALSE
    /\ additionalFeedbacks = <<>>

\* no call of filterByPersona on its own is under study
PrioritizerIdle ==
    /\ prioritizerFeedbacks = <<>>
    /\ prioritizerGiven = <<>>
    /\ prioritizerPersona = <<>>
    /\ prioritizerCalled = FALSE
    /\ sortedFeedbacks = <<>>

\* no call of simpleHash on its own is under study
HashIdle ==
    /\ hashInput = <<>>
    /\ hashCalled = FALSE
    /\ hashValue = <<0, 0>>

\* no pair of calls on altered metadata is under study
MetadataIdle ==
    /\ metadataDescription = StringValue(<<>>)
    /\ metadataPersona = <<>>
    /\ metadataAnalyzed = NullImage
    /\ metadataAltered = NullImage
    /\ metadataCalled = FALSE
    /\ metadataSeeds = <<>>
    /\ metadataFeedbacks = <<>>

PureIdle == HeuristicIdle /\ PrioritizerIdle /\ HashIdle /\ MetadataIdle

\* the variables of the parts that the calls of generateFeedback leave alone
othersVars == <<selectorVars, stepsVars, appVars, pureVars>>

OthersIdle == SelectorIdle /\ StepsIdle /\ AppIdle /\ PureIdle

Init ==
    /\ description \in Descriptions
    /\ imageData \in Images
    /\ persona \in Personas
    /\ feedbacks = <<>>
    /\ firstFeedbacks = <<>>
    /\ paddedDescription = NullValue
    /\ paddedFeedbacks = <<>>
    /\ generations = 0
    /\ paddedCalls = 0
    /\ OthersIdle

\* generateFeedback(description, imageData, persona)
Generate ==
    /\ generations < MaxGenerations
    /\ feedbacks' = generateFeedback(description, imageData, persona)
    /\ firstFeedbacks' = IF generations = 0 THEN feedbacks' ELSE firstFeedbacks
    /\ generations' = generations + 1
    /\ UNCHANGED <<description, imageData, persona, paddedDescription, paddedFeedbacks,
                   paddedCalls>>
    /\ UNCHANGED othersVars

\* generateFeedback(pad + description + pad, imageData, persona)
GeneratePadded(pad) ==
    /\ paddedCalls < MaxPaddedCalls
    /\ description.type = "string"
    /\ paddedDescription' = Padded(description, pad)
    /\ paddedFeedbacks' = generateFeedback(paddedDescription', imageData, persona)
    /\ paddedCalls' = paddedCalls + 1
    /\ UNCHANGED <<description, imageData, persona, feedbacks, firstFeedbacks, generations>>
    /\ UNCHANGED othersVars

Next ==
    \/ Generate
    \/ \E pad \in Paddings : GeneratePadded(pad)

Spec == Init /\ [][Next]_vars

(***************************************************************************)
(* Calls with a persona name that is not in the table, and with image      *)
(* metadata that is absent or lacks a dimension                            *)
(***************************************************************************)
\* "Product Manager", a persona name the table of priorities does not hold
UnknownPersona == <<80, 114, 111, 100, 117, 99, 116, 32, 77, 97, 110, 97, 103, 101, 114>>

\* no metadata, or metadata whose width or height is missing or zero
AbsentOrMalformedImages ==
    {NullImage, Image(undefined, undefined), Image(375, undefined), Image(undefined, 667),
     Image(2400, undefined), Image(2400, 0), Image(0, 667), Image(375, 0)}

InitEdge ==
    /\ description \in Descriptions
    /\ \/ imageData \in Images /\ persona = UnknownPersona
       \/ imageData \in AbsentOrMalformedImages
             /\ persona \in Personas \cup {UnknownPersona}
    /\ feedbacks = <<>>
    /\ firstFeedbacks = <<>>
    /\ paddedDescription = NullValue
    /\ paddedFeedbacks = <<>>
    /\ generations = 0
    /\ paddedCalls = 0
    /\ OthersIdle

SpecEdge == InitEdge /\ [][Generate]_vars

(***************************************************************************)
(* The selector called on its own                                          *)
(***************************************************************************)
\* the categories of the phrase table, as selectRelevantCategories lists them
AllCategories ==
    <<"usability", "hierarchy", "accessibility", "navigation", "form", "mobile">>

\* every list of table categories, and a list of one category that no phrase has
CategoryLists ==
    {SelectSeq(AllCategories, LAMBDA c : c \in chosen) : chosen \in SUBSET Range(AllCategories)}
        \cup {<<"layout">>}

\* seeds that give the target counts 6, 7 and 8
Seeds == {Num(0), Num(1), Num(2)}

\* no call of generateFeedback is under study
GeneratorIdle ==
    /\ description = NullValue
    /\ imageData = NullImage
    /\ persona = <<>>
    /\ feedbacks = <<>>
    /\ firstFeedbacks = <<>>
    /\ paddedDescription = NullValue
    /\ paddedFeedbacks = <<>>
    /\ generations = 0
    /\ paddedCalls = 0

InitSelector ==
    /\ selectorCategories \in CategoryLists
    /\ selectorPersona \in Personas \cup {UnknownPersona}
    /\ selectorSeed \in Seeds
    /\ selection = <<>>
    /\ GeneratorIdle
    /\ StepsIdle
    /\ AppIdle
    /\ PureIdle

\* selectRandomPhrases(categories, null, persona, seed)
Select ==
    /\ selection = <<>>
    /\ selection' = selectRandomPhrases(selectorCategories, selectorPersona, selectorSeed)
    /\ UNCHANGED <<selectorCategories, selectorPersona, selectorSeed>>
    /\ UNCHANGED <<generatorVars, stepsVars, appVars, pureVars>>

SpecSelector == InitSelector /\ [][Select]_vars

(***************************************************************************)
(* generateNextTestSteps                                                   *)
(***************************************************************************)
\* the pairs <<key, label>> of CATEGORY_LABELS
CATEGORY_LABELS ==
    <<\* form: 'form and input design'
     <<<<102, 111, 114, 109>>,
       <<102, 111, 114, 109, 32, 97, 110, 100, 32, 105, 110, 112, 117, 116, 32, 100, 101,
       115, 105, 103, 110>>>>,
     \* navigation: 'navigation and wayfinding'
     <<<<110, 97, 118, 105, 103, 97, 116, 105, 111, 110>>,
       <<110, 97, 118, 105, 103, 97, 116, 105, 111, 110, 32, 97, 110, 100, 32, 119, 97, 121,
       102, 105, 110, 100, 105, 110, 103>>>>,
     \* usability: 'overall usability and flow'
     <<<<117, 115, 97, 98, 105, 108, 105, 116, 121>>,
       <<111, 118, 101, 114, 97, 108, 108, 32, 117, 115, 97, 98, 105, 108, 105, 116, 121,
       32, 97, 110, 100, 32, 102, 108, 111, 119>>>>,
     \* hierarchy: 'visual hierarchy and layout'
     <<<<104, 105, 101, 114, 97, 114, 99, 104, 121>>,
       <<118, 105, 115, 117, 97, 108, 32, 104, 105, 101, 114, 97, 114, 99, 104, 121, 32, 97,
       110, 100, 32, 108, 97, 121, 111, 117, 116>>>>,
     \* accessibility: 'accessibility and inclusive design'
     <<<<97, 99, 99, 101, 115, 115, 105, 98, 105, 108, 105, 116, 121>>,
       <<97, 99, 99, 101, 115, 115, 105, 98, 105, 108, 105, 116, 121, 32, 97, 110, 100, 32,
       105, 110, 99, 108, 117, 115, 105, 118, 101, 32, 100, 101, 115, 105, 103, 110>>>>,
     \* mobile: 'mobile and responsive behavior'
     <<<<109, 111, 98, 105, 108, 101>>,
       <<109, 111, 98, 105, 108, 101, 32, 97, 110, 100, 32, 114, 101, 115, 112, 111, 110,
       115, 105, 118, 101, 32, 98, 101, 104, 97, 118, 105, 111, 114>>>>>>

\* the pairs <<persona, target>> of PERSONA_TARGETS
PERSONA_TARGETS ==
    <<\* 'End-User': 'Focus on new users (e.g. first-time visitors, 18\u201334) and task completion.'
     <<EndUser,
       <<70, 111, 99, 117, 115, 32, 111, 110, 32, 110, 101, 119, 32, 117, 115, 101, 114,
       115, 32, 40, 101, 46, 103, 46, 32, 102, 105, 114, 115, 116, 45, 116, 105, 109, 101,
       32, 118, 105, 115, 105, 116, 111, 114, 115, 44, 32, 49, 56, 8211, 51, 52, 41, 32, 97,
       110, 100, 32, 116, 97, 115, 107, 32, 99, 111, 109, 112, 108, 101, 116, 105, 111, 110,
       46>>>>,
     \* 'Stakeholder': 'Focus on decision-makers and key user segments that drive conversion.'
     <<Stakeholder,
       <<70, 111, 99, 117, 115, 32, 111, 110, 32, 100, 101, 99, 105, 115, 105, 111, 110, 45,
       109, 97, 107, 101, 114, 115, 32, 97, 110, 100, 32, 107, 101, 121, 32, 117, 115, 101,
       114, 32, 115, 101, 103, 109, 101, 110, 116, 115, 32, 116, 104, 97, 116, 32, 100, 114,
       105, 118, 101, 32, 99, 111, 110, 118, 101, 114, 115, 105, 111, 110, 46>>>>,
     \* 'Accessibility Expert': 'Include users with diverse abilities and assistive tech (screen reader, keyboard).'
     <<AccessibilityExpert,
       <<73, 110, 99, 108, 117, 100, 101, 32, 117, 115, 101, 114, 115, 32, 119, 105, 116,
       104, 32, 100, 105, 118, 101, 114, 115, 101, 32, 97, 98, 105, 108, 105, 116, 105, 101,
       115, 32, 97, 110, 100, 32, 97, 115, 115, 105, 115, 116, 105, 118, 101, 32, 116, 101,
       99, 104, 32, 40, 115, 99, 114, 101, 101, 110, 32, 114, 101, 97, 100, 101, 114, 44,
       32, 107, 101, 121, 98, 111, 97, 114, 100, 41, 46>>>>,
     \* 'General Designer': 'Focus on new users aged 18\u201334 and power users to compare behavior.'
     <<GeneralDesigner,
       <<70, 111, 99, 117, 115, 32, 111, 110, 32, 110, 101, 119, 32, 117, 115, 101, 114,
       115, 32, 97, 103, 101, 100, 32, 49, 56, 8211, 51, 52, 32, 97, 110, 100, 32, 112, 111,
       119, 101, 114, 32, 117, 115, 101, 114, 115, 32, 116, 111, 32, 99, 111, 109, 112, 97,
       114, 101, 32, 98, 101, 104, 97, 118, 105, 111, 114, 46>>>>>>

\* the pairs <<persona, question>> of PERSONA_QUESTIONS
PERSONA_QUESTIONS ==
    <<\* 'End-User': 'Ask: "Was the navigation intuitive? Could you complete the main task?"'
     <<EndUser,
       <<65, 115, 107, 58, 32, 34, 87, 97, 115, 32, 116, 104, 101, 32, 110, 97, 118, 105,
       103, 97, 116, 105, 111, 110, 32, 105, 110, 116, 117, 105, 116, 105, 118, 101, 63, 32,
       67, 111, 117, 108, 100, 32, 121, 111, 117, 32, 99, 111, 109, 112, 108, 101, 116, 101,
       32, 116, 104, 101, 32, 109, 97, 105, 110, 32, 116, 97, 115, 107, 63, 34>>>>,
     \* 'Stakeholder': 'Ask: "Does this support your goals? Where would you drop off?"'
     <<Stakeholder,
       <<65, 115, 107, 58, 32, 34, 68, 111, 101, 115, 32, 116, 104, 105, 115, 32, 115, 117,
       112, 112, 111, 114, 116, 32, 121, 111, 117, 114, 32, 103, 111, 97, 108, 115, 63, 32,
       87, 104, 101, 114, 101, 32, 119, 111, 117, 108, 100, 32, 121, 111, 117, 32, 100, 114,
       111, 112, 32, 111, 102, 102, 63, 34>>>>,
     \* 'Accessibility Expert': 'Ask: "Could you complete core tasks with your preferred technology?"'
     <<AccessibilityExpert,
       <<65, 115, 107, 58, 32, 34, 67, 111, 117, 108, 100, 32, 121, 111, 117, 32, 99, 111,
       109, 112, 108, 101, 116, 101, 32, 99, 111, 114, 101, 32, 116, 97, 115, 107, 115, 32,
       119, 105, 116, 104, 32, 121, 111, 117, 114, 32, 112, 114, 101, 102, 101, 114, 114,
       101, 100, 32, 116, 101, 99, 104, 110, 111, 108, 111, 103, 121, 63, 34>>>>,
     \* 'General Designer': 'Ask: "Was the hierarchy clear? Did the layout support the task?"'
     <<GeneralDesigner,
       <<65, 115, 107, 58, 32, 34, 87, 97, 115, 32, 116, 104, 101, 32, 104, 105, 101, 114,
       97, 114, 99, 104, 121, 32, 99, 108, 101, 97, 114, 63, 32, 68, 105, 100, 32, 116, 104,
       101, 32, 108, 97, 121, 111, 117, 116, 32, 115, 117, 112, 112, 111, 114, 116, 32, 116,
       104, 101, 32, 116, 97, 115, 107, 63, 34>>>>>>

\* "usability"
KeyUsability ==
    <<117, 115, 97, 98, 105, 108, 105, 116, 121>>

\* "mobile"
KeyMobile ==
    <<109, 111, 98, 105, 108, 101>>

\* "form"
KeyForm ==
    <<102, 111, 114, 109>>

\* "Run a short usability test with 3\u20135 participants."
RunShortTest ==
    <<82, 117, 110, 32, 97, 32, 115, 104, 111, 114, 116, 32, 117, 115, 97, 98, 105, 108,
    105, 116, 121, 32, 116, 101, 115, 116, 32, 119, 105, 116, 104, 32, 51, 8211, 53, 32,
    112, 97, 114, 116, 105, 99, 105, 112, 97, 110, 116, 115, 46>>

\* "Capture where users hesitate or get stuck."
CaptureHesitation ==
    <<67, 97, 112, 116, 117, 114, 101, 32, 119, 104, 101, 114, 101, 32, 117, 115, 101, 114,
    115, 32, 104, 101, 115, 105, 116, 97, 116, 101, 32, 111, 114, 32, 103, 101, 116, 32,
    115, 116, 117, 99, 107, 46>>

\* "Test on mobile first, then desktop."
MobileFirstHint ==
    <<84, 101, 115, 116, 32, 111, 110, 32, 109, 111, 98, 105, 108, 101, 32, 102, 105, 114,
    115, 116, 44, 32, 116, 104, 101, 110, 32, 100, 101, 115, 107, 116, 111, 112, 46>>

\* "Test form flows on both mobile and desktop."
FormFlowsHint ==
    <<84, 101, 115, 116, 32, 102, 111, 114, 109, 32, 102, 108, 111, 119, 115, 32, 111, 110,
    32, 98, 111, 116, 104, 32, 109, 111, 98, 105, 108, 101, 32, 97, 110, 100, 32, 100, 101,
    115, 107, 116, 111, 112, 46>>

\* `Prioritize testing ${label} (${issues} issue${issues > 1 ? 's' : ''} in feedback).`
PrioritizeLine(label, issues) ==
    <<80, 114, 105, 111, 114, 105, 116, 105, 122, 101, 32, 116, 101, 115, 116, 105, 110,
    103, 32>>
        \o label \o <<32, 40>> \o IntToString(issues) \o <<32, 105, 115, 115, 117, 101>>
        \o (IF issues > 1 THEN <<115>> ELSE <<>>)
        \o <<32, 105, 110, 32, 102, 101, 101, 100, 98, 97, 99, 107, 41, 46>>

\* `Also validate ${label}.`
AlsoValidateLine(label) ==
    <<65, 108, 115, 111, 32, 118, 97, 108, 105, 100, 97, 116, 101, 32>>
        \o label \o <<46>>

\* a category in capitals: "Form"
KeyFormCapital ==
    <<70, 111, 114, 109>>

\* a category without a label: "checkout"
KeyOther ==
    <<99, 104, 101, 99, 107, 111, 117, 116>>

\* table[key] || otherwise, for a table of pairs
Lookup(table, key, otherwise) ==
    IF \E i \in 1..Len(table) : table[i][1] = key
    THEN table[CHOOSE i \in 1..Len(table) : table[i][1] = key][2]
    ELSE otherwise

\* CATEGORY_LABELS[key] || key
CategoryLabel(key) == Lookup(CATEGORY_LABELS, key, key)

\* PERSONA_TARGETS[persona] || PERSONA_TARGETS['General Designer']
PersonaTarget(pers) ==
    Lookup(PERSONA_TARGETS, pers, Lookup(PERSONA_TARGETS, GeneralDesigner, <<>>))

\* PERSONA_QUESTIONS[persona] || PERSONA_QUESTIONS['General Designer']
PersonaQuestion(pers) ==
    Lookup(PERSONA_QUESTIONS, pers, Lookup(PERSONA_QUESTIONS, GeneralDesigner, <<>>))

\* (f.category || 'usability').toLowerCase(); a missing category is <<>>
CategoryKey(f) == ToLowerCase(IF f.category = <<>> THEN KeyUsability ELSE f.category)

\* byCategory[cat].issues
IssuesIn(items, cat) ==
    Cardinality({i \in 1..Len(items) : CategoryKey(items[i]) = cat /\ items[i].type = "issue"})

\* the keys of byCategory in the order of insertion, those with an issue, sorted
\* by b[1].issues - a[1].issues
SortedCategories(items) ==
    LET keys == Unique([i \in 1..Len(items) |-> SubSeq(CategoryKey(items[i]), 1,
                                                         Len(CategoryKey(items[i])))])
        HasIssues(cat) == IssuesIn(items, cat) > 0
    IN  StableSort(SelectSeq(keys, HasIssues),
                   LAMBDA a, b : IssuesIn(items, a) > IssuesIn(items, b))

\* push(x) after the test !suggestions.includes(x)
PushNew(suggestions, x) ==
    IF x \in Range(suggestions) THEN suggestions ELSE Append(suggestions, x)

\* the array suggestions when the feedback list is not empty
Suggestions(items, pers) ==
    LET sortedCategories == SortedCategories(items)
        top == sortedCategories[1]
        issues == IssuesIn(items, top)
        first ==
            IF Len(sortedCategories) > 0
            THEN <<PrioritizeLine(CategoryLabel(top), issues)>>
            ELSE <<>>
        second ==
            IF Len(sortedCategories) > 1
            THEN <<AlsoValidateLine(CategoryLabel(sortedCategories[2]))>>
            ELSE <<>>
        withPersona == PushNew(PushNew(first \o second, PersonaQuestion(pers)),
                               PersonaTarget(pers))
        categoriesPresent == {ToLowerCase(items[i].category) : i \in 1..Len(items)}
    IN  IF SubSeq(KeyMobile, 1, Len(KeyMobile)) \in categoriesPresent
        THEN Append(withPersona, MobileFirstHint)
        ELSE IF SubSeq(KeyForm, 1, Len(KeyForm)) \in categoriesPresent
        THEN Append(withPersona, FormFlowsHint)
        ELSE withPersona

\* the end of generateNextTestSteps with the fallbacks left out
CapAndPadNoFallbacks(unique) == Slice(unique, 5)

\* the end of generateNextTestSteps: the cap at five and the fallbacks below three
CapAndPad(unique) ==
    IF Len(unique) > 5 THEN Slice(unique, 5)
    ELSE IF Len(unique) < 3
    THEN Slice(PushNew(PushNew(unique, RunShortTest), CaptureHesitation), 5)
    ELSE Slice(unique, 5)

generateNextTestSteps(items, pers) ==
    IF Len(items) = 0
    THEN <<RunShortTest, PersonaTarget(pers), PersonaQuestion(pers)>>
    ELSE CapAndPad(Unique(Suggestions(items, pers)))

\* feedback items of the categories mobile, Form (a capital letter), none and
\* checkout (a category without a label), each as an issue and as a strength
StepItems ==
    [category : {KeyMobile, KeyFormCapital, <<>>, KeyOther}, type : {"issue", "positive"}]

MaxStepItems == 3

StepLists == UNION {[1..n -> StepItems] : n \in 0..MaxStepItems}

InitSteps ==
    /\ stepFeedbacks \in StepLists
    /\ stepPersona \in Personas \cup {UnknownPersona}
    /\ nextStepsSuggestions = <<>>
    /\ GeneratorIdle
    /\ SelectorIdle
    /\ AppIdle
    /\ PureIdle

\* useMemo(() => generateNextTestSteps(feedbacks, selectedPersona), ...)
DeriveNextSteps ==
    /\ nextStepsSuggestions = <<>>
    /\ nextStepsSuggestions' = generateNextTestSteps(stepFeedbacks, stepPersona)
    /\ UNCHANGED <<stepFeedbacks, stepPersona>>
    /\ UNCHANGED <<generatorVars, selectorVars, appVars, pureVars>>

SpecSteps == InitSteps /\ [][DeriveNextSteps]_vars

(***************************************************************************)
(* App.jsx: the page, its timers and the stored session                    *)
(***************************************************************************)
\* "Please enter a wireframe description first."
PleaseEnterDescription ==
    <<80, 108, 101, 97, 115, 101, 32, 101, 110, 116, 101, 114, 32, 97, 32, 119, 105, 114, 101,
    102, 114, 97, 109, 101, 32, 100, 101, 115, 99, 114, 105, 112, 116, 105, 111, 110, 32, 102,
    105, 114, 115, 116, 46>>

\* the name of the image file the user uploads: "wireframe.png"
ImageUploadName ==
    <<119, 105, 114, 101, 102, 114, 97, 109, 101, 46, 112, 110, 103>>

\* what the user types into the note of a card: "check with users"
NoteText ==
    <<99, 104, 101, 99, 107, 32, 119, 105, 116, 104, 32, 117, 115, 101, 114, 115>>

\* a description of two spaces
BlankDescription ==
    <<32, 32>>

\* the image file the user uploads, a phone portrait of 20480 bytes
ImageUpload == [name |-> ImageUploadName, size |-> 20480, width |-> 375, height |-> 667]

\* getImageIdentifier(file): `${file.name}-${file.size}`, null is <<>>
getImageIdentifier(file) ==
    IF file = NoFile THEN <<>> ELSE file.name \o Dash \o IntToString(file.size)

\* parseFloat((width / height).toFixed(2)), counted in hundredths
AspectRatio(width, height) == (200 * width + height) \div (2 * height)

\* the object img.onload resolves with
Metadata(width, height) ==
    [isNull |-> FALSE, width |-> width, height |-> height,
     aspectRatio |-> AspectRatio(width, height),
     isMobileFriendly |-> (width < 768 \/ width < height),
     hasLargeDimensions |-> (width > 1920),
     orientation |-> IF width > height THEN "landscape"
                     ELSE IF width < height THEN "portrait" ELSE "square"]

\* analyzeImage(file), for a file the browser can load
analyzeImage(file) == Metadata(file.width, file.height)

\* hasInputsChanged()
hasInputsChanged(s) ==
    \/ Trim(s.description) # s.lastGeneratedDescription
    \/ getImageIdentifier(s.imageFile) # s.lastGeneratedImageIdentifier
    \/ s.selectedPersona # s.lastGeneratedPersona

canGenerate(s) == s.feedbacks = <<>> \/ hasInputsChanged(s)

\* a Generate button that stays enabled while a generation or an export runs
GenerateDisabledWhenUnchanged(s) == ~canGenerate(s)

\* the attribute disabled of the Generate button
GenerateDisabled(s) == s.isGenerating \/ ~canGenerate(s)

\* a validation that does not trim the description
DescriptionMissingUntrimmed(d) == d = <<>>

\* !description.trim()
DescriptionMissing(d) == Trim(d) = <<>>

\* the object currentState of the two debounced saves, and the dependencies of
\* the auto-save effect
currentState(s) ==
    [description |-> s.description,
     imageData |-> s.imageData,
     selectedPersona |-> s.selectedPersona,
     feedbacks |-> s.feedbacks,
     userNotes |-> s.userNotes,
     lastGeneratedDescription |-> s.lastGeneratedDescription,
     lastGeneratedImageIdentifier |-> s.lastGeneratedImageIdentifier,
     lastGeneratedPersona |-> s.lastGeneratedPersona]

CURRENT_VERSION == 1

\* the object sessionData that saveSession(state) stores
saveSession(state) ==
    [version |-> CURRENT_VERSION,
     description |-> state.description,
     imageData |-> state.imageData,
     selectedPersona |-> IF state.selectedPersona = <<>> THEN GeneralDesigner
                         ELSE state.selectedPersona,
     feedbacks |-> state.feedbacks,
     lastGeneratedDescription |-> state.lastGeneratedDescription,
     lastGeneratedImageIdentifier |-> state.lastGeneratedImageIdentifier]

\* loadSession(): <<>> for null, else <<the object returned>>
loadSession(store) ==
    IF store = <<>> THEN <<>>
    ELSE IF store[1].version # CURRENT_VERSION THEN <<>>
    ELSE <<[version |-> store[1].version,
            description |-> store[1].description,
            imageData |-> store[1].imageData,
            selectedPersona |-> IF store[1].selectedPersona = <<>> THEN GeneralDesigner
                                ELSE store[1].selectedPersona,
            feedbacks |-> store[1].feedbacks,
            lastGeneratedDescription |-> store[1].lastGeneratedDescription,
            lastGeneratedImageIdentifier |-> store[1].lastGeneratedImageIdentifier]>>

\* the state after loadSavedSession: saved.userNotes and
\* saved.lastGeneratedPersona are undefined in what loadSession returns
Restored(saved) ==
    IF saved = <<>> THEN DefaultApp
    ELSE [DefaultApp EXCEPT
            !.description = saved[1].description,
            !.selectedPersona = saved[1].selectedPersona,
            !.feedbacks = saved[1].feedbacks,
            !.userNotes = {},
            !.imageData = saved[1].imageData,
            !.lastGeneratedDescription = saved[1].lastGeneratedDescription,
            !.lastGeneratedImageIdentifier = saved[1].lastGeneratedImageIdentifier,
            !.lastGeneratedPersona = <<>>]

\* no effect on the notes when feedbacks change
NotesCleanupSkipped(s) == s

\* the effect that runs when feedbacks change: notes of cards that are gone are
\* dropped; userNotes is a set of pairs <<feedback id, note>>
NotesCleanup(s) ==
    IF s.feedbacks # <<>> /\ s.userNotes # {}
    THEN [s EXCEPT !.userNotes =
            {n \in s.userNotes : n[1] \in {s.feedbacks[i].id : i \in 1..Len(s.feedbacks)}}]
    ELSE IF s.feedbacks = <<>> /\ s.userNotes # {}
    THEN [s EXCEPT !.userNotes = {}]
    ELSE s

\* the auto-save effect after a render: a change of a dependency cancels the
\* pending save and schedules one with the new state
AutoSave(old, new, timer) ==
    IF currentState(new) # currentState(old) THEN <<currentState(new)>> ELSE timer

\* what the user types or picks
TypedDescriptions == {<<>>, BlankDescription, DescLoginShort}
PickedPersonas == {GeneralDesigner, EndUser}
PickedFiles == {NoFile, ImageUpload}
Notes == {NoteText}

MaxEvents == 5
MaxNotedCards == 1

\* the page opened for the first time: the mount effects find no session and
\* schedule the first auto-save
InitApp ==
    /\ app = DefaultApp
    /\ localStorage = <<>>
    /\ saveTimeout = <<currentState(DefaultApp)>>
    /\ notesSaveTimeout = <<>>
    /\ generating = <<>>
    /\ exporting = 0
    /\ resetTimers = 0
    /\ analyzing = <<>>
    /\ alertMessage = <<>>
    /\ events = 0
    /\ cleared = <<>>
    /\ lastSaved = <<>>
    /\ GeneratorIdle
    /\ SelectorIdle
    /\ StepsIdle
    /\ PureIdle

restVars == <<generatorVars, selectorVars, stepsVars, pureVars>>

handleDescriptionChange(value) ==
    /\ events < MaxEvents
    /\ value # app.description
    /\ app' = [app EXCEPT !.description = value]
    /\ saveTimeout' = AutoSave(app, app', saveTimeout)
    /\ events' = events + 1
    /\ cleared' = <<>>
    /\ UNCHANGED <<localStorage, notesSaveTimeout, generating, exporting, resetTimers,
                   analyzing, alertMessage, lastSaved>>
    /\ UNCHANGED restVars

handlePersonaChange(pers) ==
    /\ events < MaxEvents
    /\ pers # app.selectedPersona
    /\ app' = [app EXCEPT !.selectedPersona = pers]
    /\ saveTimeout' = AutoSave(app, app', saveTimeout)
    /\ events' = events + 1
    /\ cleared' = <<>>
    /\ UNCHANGED <<localStorage, notesSaveTimeout, generating, exporting, resetTimers,
                   analyzing, alertMessage, lastSaved>>
    /\ UNCHANGED restVars

\* handleImageChange up to its await
handleImageChange(file) ==
    /\ events < MaxEvents
    /\ file # app.imageFile
    /\ app' = [app EXCEPT !.imageFile = file, !.imageData = NullImage]
    /\ analyzing' = IF file # NoFile THEN Append(analyzing, file) ELSE analyzing
    /\ saveTimeout' = AutoSave(app, app', saveTimeout)
    /\ events' = events + 1
    /\ cleared' = <<>>
    /\ UNCHANGED <<localStorage, notesSaveTimeout, generating, exporting, resetTimers,
                   alertMessage, lastSaved>>
    /\ UNCHANGED restVars

\* handleImageChange after its await: setImageData(analyzed)
ImageAnalyzed ==
    /\ analyzing # <<>>
    /\ app' = [app EXCEPT !.imageData = analyzeImage(Head(analyzing))]
    /\ analyzing' = Tail(analyzing)
    /\ saveTimeout' = AutoSave(app, app', saveTimeout)
    /\ UNCHANGED <<localStorage, notesSaveTimeout, generating, exporting, resetTimers,
                   alertMessage, events, cleared, lastSaved>>
    /\ UNCHANGED restVars

\* a click on Generate: handleGenerateFeedback up to its await
handleGenerateFeedback ==
    /\ events < MaxEvents
    /\ ~GenerateDisabled(app)
    /\ events' = events + 1
    /\ IF DescriptionMissing(app.description)
       THEN /\ alertMessage' = PleaseEnterDescription
            /\ UNCHANGED <<app, generating>>
       ELSE /\ app' = [app EXCEPT !.isGenerating = TRUE]
            /\ generating' = Append(generating, app)
            /\ UNCHANGED alertMessage
    /\ UNCHANGED <<localStorage, saveTimeout, notesSaveTimeout, exporting, resetTimers,
                   analyzing, cleared, lastSaved>>
    /\ UNCHANGED restVars

\* handleGenerateFeedback after its await of 300 ms, with the description, the
\* image and the persona of the render of the click
GenerationDone ==
    /\ generating # <<>>
    /\ generating' = Tail(generating)
    /\ LET render == Head(generating)
       IN  app' = NotesCleanup(
                    [app EXCEPT
                       !.feedbacks = generateFeedback(StringValue(render.description),
                                                      render.imageData,
                                                      render.selectedPersona),
                       !.lastGeneratedDescription = Trim(render.description),
                       !.lastGeneratedImageIdentifier = getImageIdentifier(render.imageFile),
                       !.lastGeneratedPersona = render.selectedPersona,
                       !.isGenerating = FALSE])
    /\ saveTimeout' = <<currentState(app')>>
    /\ UNCHANGED <<localStorage, notesSaveTimeout, exporting, resetTimers, analyzing,
                   alertMessage, events, cleared, lastSaved>>
    /\ UNCHANGED restVars

\* a click on Export PDF, a button shown with feedback and disabled while
\* isGenerating: handleExportToPDF up to its await
handleExportToPDF ==
    /\ events < MaxEvents
    /\ app.feedbacks # <<>>
    /\ ~app.isGenerating
    /\ app' = [app EXCEPT !.isGenerating = TRUE]
    /\ exporting' = exporting + 1
    /\ events' = events + 1
    /\ UNCHANGED <<localStorage, saveTimeout, notesSaveTimeout, generating, resetTimers,
                   analyzing, alertMessage, cleared, lastSaved>>
    /\ UNCHANGED restVars

\* exportToPDF has returned or thrown: the finally block starts the timer of 500 ms
ExportDone ==
    /\ exporting > 0
    /\ exporting' = exporting - 1
    /\ resetTimers' = resetTimers + 1
    /\ UNCHANGED <<app, localStorage, saveTimeout, notesSaveTimeout, generating, analyzing,
                   alertMessage, events, cleared, lastSaved>>
    /\ UNCHANGED restVars

\* a finally block whose timer leaves the flag as it is
ResetIsGeneratingFlagKept ==
    /\ resetTimers > 0
    /\ resetTimers' = resetTimers - 1
    /\ UNCHANGED <<app, localStorage, saveTimeout, notesSaveTimeout, generating, exporting,
                   analyzing, alertMessage, events, cleared, lastSaved>>
    /\ UNCHANGED restVars

\* the timer of the finally block: setIsGenerating(false)
ResetIsGenerating ==
    /\ resetTimers > 0
    /\ resetTimers' = resetTimers - 1
    /\ app' = [app EXCEPT !.isGenerating = FALSE]
    /\ UNCHANGED <<localStorage, saveTimeout, notesSaveTimeout, generating, exporting,
                   analyzing, alertMessage, events, cleared, lastSaved>>
    /\ UNCHANGED restVars

\* the cards the user writes notes on
NotedCards(s) == {s.feedbacks[i].id : i \in 1..Min(Len(s.feedbacks), MaxNotedCards)}

\* handleNoteChange(feedbackId, note): the timer keeps the state of the render
\* of the handler, with the notes as updated
handleNoteChange(feedbackId, note) ==
    /\ events < MaxEvents
    /\ feedbackId \in NotedCards(app)
    /\ <<feedbackId, note>> \notin app.userNotes
    /\ LET updated == {n \in app.userNotes : n[1] # feedbackId} \cup {<<feedbackId, note>>}
       IN  /\ app' = [app EXCEPT !.userNotes = updated]
           /\ notesSaveTimeout' = <<[currentState(app) EXCEPT !.userNotes = updated]>>
    /\ saveTimeout' = AutoSave(app, app', saveTimeout)
    /\ events' = events + 1
    /\ cleared' = <<>>
    /\ UNCHANGED <<localStorage, generating, exporting, resetTimers, analyzing, alertMessage,
                   lastSaved>>
    /\ UNCHANGED restVars

\* the timer of 500 ms of handleNoteChange
NotesSaveFires ==
    /\ notesSaveTimeout # <<>>
    /\ localStorage' = <<saveSession(notesSaveTimeout[1])>>
    /\ lastSaved' = notesSaveTimeout
    /\ notesSaveTimeout' = <<>>
    /\ UNCHANGED <<app, saveTimeout, generating, exporting, resetTimers, analyzing,
                   alertMessage, events, cleared>>
    /\ UNCHANGED restVars

\* the timer of 800 ms of the auto-save effect
AutoSaveFires ==
    /\ saveTimeout # <<>>
    /\ localStorage' = <<saveSession(saveTimeout[1])>>
    /\ lastSaved' = saveTimeout
    /\ saveTimeout' = <<>>
    /\ UNCHANGED <<app, notesSaveTimeout, generating, exporting, resetTimers, analyzing,
                   alertMessage, events, cleared>>
    /\ UNCHANGED restVars

\* handleClearSession, the user confirming: the new arrays re-run the auto-save
\* effect, and neither handler nor effect touches notesSaveTimeoutRef
handleClearSession ==
    /\ events < MaxEvents
    /\ localStorage' = <<>>
    /\ lastSaved' = <<>>
    /\ app' = [DefaultApp EXCEPT !.isGenerating = app.isGenerating]
    /\ saveTimeout' = <<currentState(app')>>
    /\ cleared' = <<[description |-> app.description, feedbacks |-> app.feedbacks]>>
    /\ events' = events + 1
    /\ UNCHANGED <<notesSaveTimeout, generating, exporting, resetTimers, analyzing,
                   alertMessage>>
    /\ UNCHANGED restVars

\* the page reloaded: what was waiting is gone, the mount effects restore the
\* stored session and schedule an auto-save
Reload ==
    /\ events < MaxEvents
    /\ app' = NotesCleanup(Restored(loadSession(localStorage)))
    /\ saveTimeout' = <<currentState(app')>>
    /\ notesSaveTimeout' = <<>>
    /\ generating' = <<>>
    /\ exporting' = 0
    /\ resetTimers' = 0
    /\ analyzing' = <<>>
    /\ alertMessage' = <<>>
    /\ events' = events + 1
    /\ UNCHANGED <<localStorage, cleared, lastSaved>>
    /\ UNCHANGED restVars

NextApp ==
    \/ \E value \in TypedDescriptions : handleDescriptionChange(value)
    \/ \E pers \in PickedPersonas : handlePersonaChange(pers)
    \/ \E file \in PickedFiles : handleImageChange(file)
    \/ ImageAnalyzed
    \/ handleGenerateFeedback
    \/ GenerationDone
    \/ handleExportToPDF
    \/ ExportDone
    \/ ResetIsGenerating
    \/ \E feedbackId \in NotedCards(app), note \in Notes : handleNoteChange(feedbackId, note)
    \/ NotesSaveFires
    \/ AutoSaveFires
    \/ handleClearSession
    \/ Reload

SpecApp == InitApp /\ [][NextApp]_vars

\* weak fairness of GenerationDone, with ENABLED <<GenerationDone>>_vars written
\* as the condition it amounts to: a generation is waiting
GenerationFair == []<>(generating = <<>>) \/ []<><<GenerationDone>>_vars

\* the page with an event loop that runs every timer that is due and every
\* continuation of a settled promise: the 300 ms wait of the generation, the
\* return of exportToPDF and the 500 ms timer of its finally block
SpecAppFair ==
    /\ SpecApp
    /\ GenerationFair
    /\ WF_vars(ExportDone)
    /\ WF_vars(ResetIsGenerating)

(***************************************************************************)
(* generateImageBasedFeedback called on its own                            *)
(***************************************************************************)
\* the program parts other than the calls of single functions
programVars == <<generatorVars, selectorVars, stepsVars, appVars>>

ProgramIdle == GeneratorIdle /\ SelectorIdle /\ StepsIdle /\ AppIdle

\* images of positive width and height, on both sides of 768, of 1920 and of
\* the square
HeuristicWidths == {1, 767, 768, 1000, 1920, 1921, 3000}
HeuristicHeights == {1, 768, 1000, 2000, 4000}
HeuristicImages == {Image(w, h) : w \in HeuristicWidths, h \in HeuristicHeights}

\* seeds: small ones, and the two largest values of simpleHash
HeuristicSeeds == {Num(0), Num(1), Num(7), Num(2147483647), <<32768, 0>>}

InitHeuristic ==
    /\ heuristicImage \in HeuristicImages
    /\ heuristicPersona \in Personas \cup {UnknownPersona}
    /\ heuristicSeed \in HeuristicSeeds
    /\ heuristicCalled = FALSE
    /\ additionalFeedbacks = <<>>
    /\ ProgramIdle
    /\ PrioritizerIdle
    /\ HashIdle
    /\ MetadataIdle

\* generateImageBasedFeedback(imageData, persona, seed)
CallHeuristic ==
    /\ ~heuristicCalled
    /\ additionalFeedbacks' =
          generateImageBasedFeedback(heuristicImage, heuristicPersona, heuristicSeed)
    /\ heuristicCalled' = TRUE
    /\ UNCHANGED <<heuristicImage, heuristicPersona, heuristicSeed>>
    /\ UNCHANGED <<programVars, prioritizerVars, hashVars, metadataVars>>

SpecHeuristic == InitHeuristic /\ [][CallHeuristic]_vars

(***************************************************************************)
(* filterByPersona called on its own                                       *)
(***************************************************************************)
MaxListLen == 3

\* items of three categories, each preferred by some personas only, of both
\* polarities; the id tells the items of a list apart
PrioritizerItems(i) ==
    [category : {"usability", "mobile", "form"}, type : {"issue", "positive"},
     id : {IntToString(i)}]

PrioritizerLists ==
    UNION {{list \in [1..n -> UNION {PrioritizerItems(i) : i \in 1..n}] :
               \A i \in 1..n : list[i].id = IntToString(i)} : n \in 0..MaxListLen}

InitPrioritizer ==
    /\ prioritizerFeedbacks \in PrioritizerLists
    /\ prioritizerGiven = prioritizerFeedbacks
    /\ prioritizerPersona \in Personas \cup {UnknownPersona}
    /\ prioritizerCalled = FALSE
    /\ sortedFeedbacks = <<>>
    /\ ProgramIdle
    /\ HeuristicIdle
    /\ HashIdle
    /\ MetadataIdle

\* filterByPersona(feedbacks, persona)
CallPrioritizer ==
    /\ ~prioritizerCalled
    /\ sortedFeedbacks' = filterByPersona(prioritizerFeedbacks, prioritizerPersona)
    /\ prioritizerFeedbacks' = filterByPersonaArgument(prioritizerFeedbacks, prioritizerPersona)
    /\ prioritizerCalled' = TRUE
    /\ UNCHANGED <<prioritizerGiven, prioritizerPersona>>
    /\ UNCHANGED <<programVars, heuristicVars, hashVars, metadataVars>>

SpecPrioritizer == InitPrioritizer /\ [][CallPrioritizer]_vars

(***************************************************************************)
(* simpleHash called on its own                                            *)
(***************************************************************************)
MaxHashLen == 3

\* a space, two letters and the largest code unit
HashAlphabet == {32, 97, 122, 65535}

\* "alxexlnb": the accumulator of simpleHash ends at -2^31
HashOfMinInt == <<97, 108, 120, 101, 120, 108, 110, 98>>

\* the strings hashed: all strings over the alphabet up to a length, the
\* string that ends at -2^31, its prefixes, and the texts of the phrase table
HashInputs ==
    UNION {[1..n -> HashAlphabet] : n \in 0..MaxHashLen}
        \cup {SubSeq(HashOfMinInt, 1, n) : n \in 1..Len(HashOfMinInt)}
        \cup {feedbackPhrases[i].text : i \in 1..Len(feedbackPhrases)}

InitHash ==
    /\ hashInput \in HashInputs
    /\ hashCalled = FALSE
    /\ hashValue = <<0, 0>>
    /\ ProgramIdle
    /\ HeuristicIdle
    /\ PrioritizerIdle
    /\ MetadataIdle

\* simpleHash(str)
CallHash ==
    /\ ~hashCalled
    /\ hashValue' = simpleHash(hashInput)
    /\ hashCalled' = TRUE
    /\ UNCHANGED hashInput
    /\ UNCHANGED <<programVars, heuristicVars, prioritizerVars, metadataVars>>

SpecHash == InitHash /\ [][CallHash]_vars

(***************************************************************************)
(* generateFeedback on metadata that differs in the derived fields only    *)
(***************************************************************************)
\* a phone portrait, a wide desktop, a tall wide page, a square
MetadataSizes == {<<375, 667>>, <<2400, 1200>>, <<2000, 3000>>, <<800, 800>>}

\* the objects with the width and height of one object and any value of the
\* four other fields
AlteredMetadata(image) ==
    [isNull : {FALSE}, width : {image.width}, height : {image.height},
     aspectRatio : {0, image.aspectRatio, 100 * image.height},
     isMobileFriendly : BOOLEAN, hasLargeDimensions : BOOLEAN,
     orientation : {"landscape", "portrait", "square"}]

InitMetadata ==
    /\ metadataDescription \in {StringValue(DescLoginShort), StringValue(DescDashboard)}
    /\ metadataPersona \in {EndUser, GeneralDesigner}
    /\ metadataAnalyzed \in {Metadata(size[1], size[2]) : size \in MetadataSizes}
    /\ metadataAltered \in AlteredMetadata(metadataAnalyzed) \ {metadataAnalyzed}
    /\ metadataCalled = FALSE
    /\ metadataSeeds = <<>>
    /\ metadataFeedbacks = <<>>
    /\ ProgramIdle
    /\ HeuristicIdle
    /\ PrioritizerIdle
    /\ HashIdle

\* generateFeedback(description, imageData, persona), once with each object
CallOnBothMetadata ==
    /\ ~metadataCalled
    /\ metadataSeeds' =
          <<getInputSeed(metadataDescription, metadataAnalyzed, metadataPersona),
            getInputSeed(metadataDescription, metadataAltered, metadataPersona)>>
    /\ metadataFeedbacks' =
          <<generateFeedback(metadataDescription, metadataAnalyzed, metadataPersona),
            generateFeedback(metadataDescription, metadataAltered, metadataPersona)>>
    /\ metadataCalled' = TRUE
    /\ UNCHANGED <<metadataDescription, metadataPersona, metadataAnalyzed, metadataAltered>>
    /\ UNCHANGED <<programVars, heuristicVars, prioritizerVars, hashVars>>

SpecMetadata == InitMetadata /\ [][CallOnBothMetadata]_vars

(***************************************************************************)
(* Properties of the returned list                                         *)
(***************************************************************************)
\* a call with the arguments under study has returned
Generated == generations > 0

\* the ids of a list
Ids(items) == {items[i].id : i \in 1..Len(items)}

\* the text keys of a list
TextKeys(items) == {TextKey(items[i]) : i \in 1..Len(items)}

C3_NoRepeatedText ==
    Generated =>
        /\ Cardinality(TextKeys(feedbacks)) = Len(feedbacks)
        /\ LET primary == PrimaryList(description, imageData, persona)
               image == ImageList(description, imageData, persona)
           IN  \A m \in 1..Len(image) :
                   TextKey(image[m]) \in TextKeys(primary) =>
                       /\ image[m].id \notin Ids(feedbacks)
                       /\ \E q \in 1..Len(primary) :
                             /\ TextKey(primary[q]) = TextKey(image[m])
                             /\ \E i \in 1..Len(feedbacks) : feedbacks[i] = primary[q]

\* the image heuristic chose a phrase that the primary selection had chosen too
C3_Witness ==
    /\ Generated
    /\ \E m \in Range(ImageList(description, imageData, persona)) :
          TextKey(m) \in TextKeys(PrimaryList(description, imageData, persona))

\* C4: for Accessibility Expert no returned item is Stakeholder-style, for
\* Stakeholder no returned item is Accessibility-style.
C4_StyleIsolation ==
    Generated =>
        /\ persona = AccessibilityExpert =>
              \A i \in 1..Len(feedbacks) : ~isStakeholderStyle(feedbacks[i])
        /\ persona = Stakeholder =>
              \A i \in 1..Len(feedbacks) : ~isAccessibilityExpertStyle(feedbacks[i])

\* a Stakeholder list for a description that names accessibility, with an item
\* of the image heuristic in it
C4_Witness ==
    /\ Generated
    /\ persona = Stakeholder
    /\ "accessibility" \in Range(WorkingCategories(description, persona))
    /\ \E i \in 1..Len(feedbacks) : StartsWith(feedbacks[i].id, IdImageMobile)

\* C5: in the returned list every item of a preferred category precedes every
\* item of another category, and within each of the two groups every issue
\* precedes every positive item.
C5_PriorityOrder ==
    Generated =>
        \A i, j \in 1..Len(feedbacks) :
            i < j =>
                LET iPreferred == feedbacks[i].category \in Range(Preferred(persona))
                    jPreferred == feedbacks[j].category \in Range(Preferred(persona))
                IN  /\ jPreferred => iPreferred
                    /\ (iPreferred = jPreferred /\ feedbacks[j].type = "issue")
                          => feedbacks[i].type = "issue"

\* a list cut to eight that holds an image item, both groups and both polarities
C5_Witness ==
    /\ Generated
    /\ Len(PrimaryList(description, imageData, persona))
         + Len(ImageList(description, imageData, persona)) > 8
    /\ \E i \in 1..Len(feedbacks) : StartsWith(feedbacks[i].id, IdImageMobile)
    /\ \E i, j \in 1..Len(feedbacks) :
          /\ feedbacks[i].category \in Range(Preferred(persona))
          /\ feedbacks[j].category \notin Range(Preferred(persona))
    /\ \E i, j \in 1..Len(feedbacks) :
          feedbacks[i].type = "issue" /\ feedbacks[j].type = "positive"

\* the positions of the returned items whose id starts with a prefix
WithIdPrefix(prefix) == {i \in 1..Len(feedbacks) : StartsWith(feedbacks[i].id, prefix)}

\* the login description of the testing guide, without an image, has been generated
LoginGenerated ==
    Generated /\ description = StringValue(DescLogin) /\ imageData = NullImage

\* C6, as stated: for the login description without an image and any of the four
\* personas, the working categories include form and a form item is returned.
C6_FormForEveryPersona ==
    LoginGenerated =>
        /\ "form" \in Range(WorkingCategories(description, persona))
        /\ \E i \in 1..Len(feedbacks) : feedbacks[i].category = "form"

\* C6, amended: the working categories include form for all four personas; a
\* form item is returned for End-User, Stakeholder and General Designer.
C6_FormRelevance ==
    LoginGenerated =>
        /\ "form" \in Range(WorkingCategories(description, persona))
        /\ persona \in {EndUser, Stakeholder, GeneralDesigner} =>
              \E i \in 1..Len(feedbacks) : feedbacks[i].category = "form"

\* the case of the testing guide: the login description for General Designer
C6_Witness ==
    /\ LoginGenerated
    /\ persona = GeneralDesigner
    /\ \E i \in 1..Len(feedbacks) : feedbacks[i].category = "form"

\* C7: for the image 375 x 667, whatever the description and the persona, exactly
\* one returned item has an id that starts with feedback-image-mobile-.
C7_MobileImageItem ==
    (Generated /\ imageData = Image(375, 667)) =>
        Cardinality(WithIdPrefix(IdImageMobile)) = 1

\* C8: for the image 2400 x 1200, whatever the description and the persona,
\* exactly one returned item has the id feedback-image-responsive-{seed} and the
\* fixed responsive text, and none has an id that starts with feedback-image-mobile-.
C8_ResponsiveImageItem ==
    (Generated /\ imageData = Image(2400, 1200)) =>
        /\ Cardinality({i \in 1..Len(feedbacks) :
               /\ feedbacks[i].id = IdImageResponsive
                     \o NumToString(getInputSeed(description, imageData, persona))
               /\ feedbacks[i].text = ResponsiveText}) = 1
        /\ WithIdPrefix(IdImageMobile) = {}

\* C9: for a description that is the empty string, null or not a string,
\* extractKeywords returns no keyword, and generateFeedback(description, null,
\* 'General Designer') returns 6 to 8 items, all of category usability or hierarchy.
C9_InvalidDescription ==
    description \in {StringValue(<<>>), NullValue, NumberValue(DescFortyTwo)} =>
        /\ extractKeywords(description) = <<>>
        /\ (Generated /\ imageData = NullImage /\ persona = GeneralDesigner) =>
              /\ Len(feedbacks) \in 6..8
              /\ \A i \in 1..Len(feedbacks) :
                    feedbacks[i].category \in {"usability", "hierarchy"}

\* the list returned for a description that is a number
C9_Witness ==
    /\ Generated
    /\ description = NumberValue(DescFortyTwo)
    /\ imageData = NullImage
    /\ persona = GeneralDesigner
    /\ Len(feedbacks) > 0

\* C10: two descriptions that are equal after trimming give the same seed and,
\* with the same image metadata and persona, the same list.
C10_WhitespaceInvariance ==
    (/\ Generated
     /\ paddedCalls > 0
     /\ Trim(ToStr(paddedDescription)) = Trim(ToStr(description))) =>
        /\ getInputSeed(paddedDescription, imageData, persona)
              = getInputSeed(description, imageData, persona)
        /\ paddedFeedbacks = feedbacks

\* a description with keywords and the same description with white space around it
C10_Witness ==
    /\ Generated
    /\ paddedCalls > 0
    /\ ToStr(paddedDescription) # ToStr(description)
    /\ Trim(ToStr(paddedDescription)) = ToStr(description)
    /\ Len(extractKeywords(description)) > 1
    /\ Len(paddedFeedbacks) > 0

\* C11: no two items of a returned list have the same id.
C11_UniqueIds ==
    /\ Generated => Cardinality(Ids(feedbacks)) = Len(feedbacks)
    /\ paddedCalls > 0 => Cardinality(Ids(paddedFeedbacks)) = Len(paddedFeedbacks)

\* a returned list that holds primary items and an item of the image heuristic
C11_Witness ==
    /\ Generated
    /\ WithIdPrefix(IdImageMobile) # {}
    /\ \E i \in 1..Len(feedbacks) :
          feedbacks[i].id = IdFeedback
              \o NumToString(getInputSeed(description, imageData, persona))
              \o Dash \o IntToString(0)

\* C19: the categories passed to the selector are the detected keywords united
\* with usability and hierarchy (exactly these two when no keyword is detected and
\* the persona is not Accessibility Expert), plus accessibility and mobile for
\* Accessibility Expert and for no other persona; no category is listed twice.
C19_WorkingCategories ==
    Generated =>
        LET working == WorkingCategories(description, persona)
            keywords == Range(extractKeywords(description))
            extra == IF persona = AccessibilityExpert
                     THEN {"accessibility", "mobile"} ELSE {}
        IN  /\ Range(working) = keywords \cup {"usability", "hierarchy"} \cup extra
            /\ Cardinality(Range(working)) = Len(working)
            /\ (keywords = {} /\ persona # AccessibilityExpert)
                  => working = <<"usability", "hierarchy">>

\* Accessibility Expert with a description that names mobile but not accessibility
C19_Witness ==
    /\ Generated
    /\ persona = AccessibilityExpert
    /\ "mobile" \in Range(extractKeywords(description))
    /\ "accessibility" \notin Range(extractKeywords(description))
    /\ Len(WorkingCategories(description, persona)) > 2

C14_NoImageItems ==
    (/\ Generated
     /\ \/ imageData.isNull
        \/ imageData.width \in {undefined, 0}
        \/ imageData.height \in {undefined, 0}) =>
        WithIdPrefix(IdImage) = {}

\* a list returned for metadata that has a width above 1920 but no height
C14_Witness ==
    /\ Generated
    /\ imageData = Image(2400, undefined)
    /\ Len(feedbacks) > 0

\* the phrase of the table an item was made from: the item without its id
Phrase(item) ==
    [text |-> item.text, category |-> item.category, type |-> item.type,
     suggestion |-> item.suggestion]

\* the phrases of the table in the categories asked for
InCategories == {p \in Range(feedbackPhrases) : p.category \in Range(selectorCategories)}

\* those of the style of the persona: Stakeholder-style for Stakeholder,
\* Accessibility-style for Accessibility Expert, generic for every other name
InPersonaStyle ==
    {p \in InCategories :
        IF selectorPersona = Stakeholder THEN isStakeholderStyle(p)
        ELSE IF selectorPersona = AccessibilityExpert THEN isAccessibilityExpertStyle(p)
        ELSE isGenericStyle(p)}

InGenericStyle == {p \in InCategories : isGenericStyle(p)}

\* the selector returned the first entries of the table under fallback ids
TableFallback ==
    /\ Len(selection) = Min(4, Len(feedbackPhrases))
    /\ \A i \in 1..Len(selection) :
          selection[i] = WithId(feedbackPhrases[i],
              IdFeedback \o NumToString(selectorSeed) \o IdDashFallback \o IntToString(i - 1))

\* the selector returned the start of a pool: as many of its phrases as the target
\* count allows, each once, under the ids feedback-{seed}-{index}
DrawnFrom(pool) ==
    /\ Len(selection)
          = Min(Min(Max(6, 6 + NumMod(selectorSeed, 3)), 8), Cardinality(pool))
    /\ \A i \in 1..Len(selection) :
          /\ Phrase(selection[i]) \in pool
          /\ selection[i].id
                = IdFeedback \o NumToString(selectorSeed) \o Dash \o IntToString(i - 1)
    /\ \A i, j \in 1..Len(selection) : i # j => selection[i].text # selection[j].text

\* C20 as claimed: whenever the table has a phrase in the categories asked for,
\* the pool is the persona-style phrases of those categories if there are any,
\* otherwise their generic-style phrases if there are any, otherwise all their
\* phrases; every item returned is in a category asked for and the table fallback
\* is not used.
C20_ThreeTierChain ==
    (selection # <<>> /\ InCategories # {}) =>
        /\ DrawnFrom(IF InPersonaStyle # {} THEN InPersonaStyle
                     ELSE IF InGenericStyle # {} THEN InGenericStyle
                     ELSE InCategories)
        /\ \A i \in 1..Len(selection) : selection[i].category \in Range(selectorCategories)

\* C20, amended: for Stakeholder and Accessibility Expert the pool is the
\* persona-style phrases of the categories if there are any, otherwise their
\* generic-style phrases, and when there are none of these either the table
\* fallback is used; for every other persona the pool is the generic-style phrases
\* if there are any, otherwise all phrases of the categories.  Unless the table
\* fallback is used every item returned is in a category asked for, and the table
\* fallback is used when the table has no phrase in the categories.
C20_StyleChain ==
    selection # <<>> =>
        LET styled == selectorPersona \in {Stakeholder, AccessibilityExpert}
            pool == IF InPersonaStyle # {} THEN InPersonaStyle
                    ELSE IF styled THEN InGenericStyle
                    ELSE InCategories
        IN  IF pool = {}
            THEN TableFallback
            ELSE /\ DrawnFrom(pool)
                 /\ \A i \in 1..Len(selection) :
                       selection[i].category \in Range(selectorCategories)

\* Accessibility Expert asks for categories that hold no Accessibility-style
\* phrase and gets generic phrases of these categories
C20_Witness ==
    /\ selection # <<>>
    /\ selectorPersona = AccessibilityExpert
    /\ InCategories # {}
    /\ InPersonaStyle = {}
    /\ InGenericStyle # {}
    /\ \A i \in 1..Len(selection) : Phrase(selection[i]) \in InGenericStyle

C15_SingleGeneration ==
    /\ Len(generating) + exporting <= 1
    /\ (Len(generating) + exporting = 1 => app.isGenerating)
    /\ (resetTimers > 0 => generating = <<>> /\ app.isGenerating)

\* a generation running after an export of the same page has come to its end
C15_Witness ==
    /\ Len(generating) = 1
    /\ app.feedbacks # <<>>
    /\ app.isGenerating
    /\ events >= 4
    /\ resetTimers = 0
    /\ exporting = 0
    /\ cleared = <<>>
    /\ app.selectedPersona = EndUser
    /\ app.lastGeneratedPersona = GeneralDesigner
    /\ localStorage = <<>>
    /\ notesSaveTimeout = <<>>
    /\ app.userNotes = {}

\* C16: a click on Generate while the description is empty or white space
\* only starts no generation and leaves feedbacks, userNotes, isGenerating
\* and the three lastGenerated fields as they were.
C16_EmptyDescriptionRejected ==
    [][(handleGenerateFeedback /\ Trim(app.description) = <<>>) =>
          /\ generating' = generating
          /\ app'.feedbacks = app.feedbacks
          /\ app'.userNotes = app.userNotes
          /\ app'.isGenerating = app.isGenerating
          /\ app'.lastGeneratedDescription = app.lastGeneratedDescription
          /\ app'.lastGeneratedImageIdentifier = app.lastGeneratedImageIdentifier
          /\ app'.lastGeneratedPersona = app.lastGeneratedPersona]_vars

\* the alert of the validation shown over a page that holds feedback and whose
\* description is white space only
C16_Witness ==
    /\ alertMessage = PleaseEnterDescription
    /\ app.description = BlankDescription
    /\ app.feedbacks # <<>>
    /\ ~app.isGenerating
    /\ generating = <<>>

\* C17: from a confirmed Clear Session until the user enters new input, the
\* store never holds the description or the feedback list that was cleared, so
\* that no reload can bring the cleared session back.
C17_ClearIsFinal ==
    (cleared # <<>> /\ localStorage # <<>>) =>
        /\ cleared[1].description # <<>> =>
              localStorage[1].description # cleared[1].description
        /\ cleared[1].feedbacks # <<>> =>
              localStorage[1].feedbacks # cleared[1].feedbacks

\* C18: a reload restores what the last saveSession was given: description,
\* image metadata, persona, feedback list and the notes keyed by feedback id.
C18_SessionRoundTrip ==
    [][(Reload /\ lastSaved # <<>>) =>
          /\ app'.description = lastSaved[1].description
          /\ app'.imageData = lastSaved[1].imageData
          /\ app'.selectedPersona = lastSaved[1].selectedPersona
          /\ app'.feedbacks = lastSaved[1].feedbacks
          /\ app'.userNotes = lastSaved[1].userNotes]_vars

\* the style-filtered pool of the selector for a list of categories
SelectorPool(categories, pers) ==
    LET InList(p) == p.category \in Range(categories)
        byCategory == Filter(feedbackPhrases, InList)
    IN  StyleFilter(byCategory, byCategory, pers)

\* the sort key of the selector: simpleHash(text + seed)
SelectorKey(item, seed) == simpleHash(item.text \o NumToString(seed))

MobilePool(pers) ==
    LET IsMobile(p) == p.category = "mobile"
        allMobile == Filter(feedbackPhrases, IsMobile)
    IN  StyleFilter(allMobile, allMobile, pers)

\* C22: for positive width and height the heuristic returns the mobile item
\* (id feedback-image-mobile-{seed}, the entry seed mod pool length of the
\* style-filtered mobile pool) exactly when width/height < 1 or width < 768,
\* the responsive item (id feedback-image-responsive-{seed}) exactly when
\* width > 1920, the mobile item first when both, and nothing else.
C22_IndependentTriggers ==
    heuristicCalled =>
        LET pool == MobilePool(heuristicPersona)
            seedText == NumToString(heuristicSeed)
            mobileDue == \/ heuristicImage.width < heuristicImage.height
                         \/ heuristicImage.width < 768
            responsiveDue == heuristicImage.width > 1920
            mobileItem == WithId(pool[NumMod(heuristicSeed, Len(pool)) + 1],
                                 IdImageMobile \o seedText)
            responsiveItem == WithId(ResponsivePhrase, IdImageResponsive \o seedText)
        IN  /\ Len(pool) > 0
            /\ additionalFeedbacks =
                  (IF mobileDue THEN <<mobileItem>> ELSE <<>>)
                     \o (IF responsiveDue THEN <<responsiveItem>> ELSE <<>>)
            /\ Len(additionalFeedbacks) <= 2

\* a tall image wider than 1920: both items, the mobile item first
C22_Witness ==
    /\ heuristicCalled
    /\ heuristicImage = Image(1921, 4000)
    /\ Len(additionalFeedbacks) = 2
    /\ StartsWith(additionalFeedbacks[1].id, IdImageMobile)
    /\ StartsWith(additionalFeedbacks[2].id, IdImageResponsive)

\* the place of the item with an id in a list
PlaceOf(items, id) == CHOOSE k \in 1..Len(items) : items[k].id = id

SamePartition(a, b, pers) ==
    (a.category \in Range(Preferred(pers))) = (b.category \in Range(Preferred(pers)))

\* C23: the list filterByPersona returns is a permutation of the list passed,
\* the list passed is left as it was, and two items of the same partition and
\* the same polarity come in the order they were passed in.
C23_StableReordering ==
    prioritizerCalled =>
        /\ Len(sortedFeedbacks) = Len(prioritizerGiven)
        /\ \A i \in 1..Len(prioritizerGiven) :
              Cardinality({k \in 1..Len(sortedFeedbacks) :
                              sortedFeedbacks[k] = prioritizerGiven[i]}) = 1
        /\ prioritizerFeedbacks = prioritizerGiven
        /\ \A i, j \in 1..Len(prioritizerGiven) :
              (/\ i < j
               /\ prioritizerGiven[i].type = prioritizerGiven[j].type
               /\ SamePartition(prioritizerGiven[i], prioritizerGiven[j], prioritizerPersona))
                 => PlaceOf(sortedFeedbacks, prioritizerGiven[i].id)
                       < PlaceOf(sortedFeedbacks, prioritizerGiven[j].id)

\* a list the sort has to reorder, with two items that tie
C23_Witness ==
    /\ prioritizerCalled
    /\ prioritizerPersona = AccessibilityExpert
    /\ Len(prioritizerGiven) = 3
    /\ prioritizerGiven[1].category = "form" /\ prioritizerGiven[1].type = "issue"
    /\ prioritizerGiven[2].category = "mobile" /\ prioritizerGiven[2].type = "positive"
    /\ prioritizerGiven[3].category = "usability" /\ prioritizerGiven[3].type = "issue"
    /\ sortedFeedbacks = <<prioritizerGiven[2], prioritizerGiven[1], prioritizerGiven[3]>>

\* the largest length of a pool the seed is reduced by
LargestPool == Len(feedbackPhrases)

\* C25: simpleHash returns an integer of 0 .. 2^31 for every string, 2^31 when
\* the accumulator ends at -2^31; the seed modulo 3 is 0, 1 or 2 and the seed
\* modulo the length of a pool is an index of the pool.
C25_NonNegativeSeed ==
    hashCalled =>
        /\ hashValue[1] \in 0..(Half \div 2)
        /\ hashValue[2] \in 0..(Half - 1)
        /\ (hashValue[1] = Half \div 2 => hashValue[2] = 0)
        /\ NumMod(hashValue, 3) \in {0, 1, 2}
        /\ \A length \in 1..LargestPool : NumMod(hashValue, length) \in 0..(length - 1)

\* the string whose accumulator ends at -2^31 hashes to 2^31
C25_Witness ==
    /\ hashCalled
    /\ hashInput = HashOfMinInt
    /\ hashValue = <<Half \div 2, 0>>


\* C27: two image metadata objects of equal width and height that differ in
\* aspectRatio, isMobileFriendly, hasLargeDimensions or orientation give, for
\* the same description and persona, the same seed and the same list
C27_OnlyWidthAndHeight ==
    metadataCalled =>
        /\ metadataAnalyzed.width = metadataAltered.width
        /\ metadataAnalyzed.height = metadataAltered.height
        /\ metadataAnalyzed # metadataAltered
        /\ metadataSeeds[1] = metadataSeeds[2]
        /\ metadataFeedbacks[1] = metadataFeedbacks[2]

\* a phone portrait whose second object says landscape, not mobile friendly and
\* large: both lists carry the mobile item of the image
C27_Witness ==
    /\ metadataCalled
    /\ metadataAnalyzed = Metadata(375, 667)
    /\ metadataAltered.orientation = "landscape"
    /\ ~metadataAltered.isMobileFriendly
    /\ metadataAltered.hasLargeDimensions
    /\ metadataAltered.aspectRatio # metadataAnalyzed.aspectRatio
    /\ \E i \in 1..Len(metadataFeedbacks[2]) :
          metadataFeedbacks[2][i].id = IdImageMobile \o NumToString(metadataSeeds[2])


\* the ids of the two last resorts: feedback-{seed}-fallback-{i} of the selector
\* and feedback-fallback-{seed}-{i} of the top-up
LastResortIds(seed) ==
    {IdFeedback \o NumToString(seed) \o IdDashFallback \o IntToString(i) : i \in 0..8}
        \cup {IdFeedbackFallback \o NumToString(seed) \o Dash \o IntToString(i) : i \in 0..8}

\* the working categories a description can lead to, in some order: usability
\* and hierarchy, with any of the four others; accessibility and mobile are
\* among them for the Accessibility Expert
PossibleCategories(pers) ==
    {<<"usability", "hierarchy">> \o navigation \o form \o mobile \o accessibility :
        navigation \in {<<>>, <<"navigation">>}, form \in {<<>>, <<"form">>},
        mobile \in IF pers = AccessibilityExpert
                   THEN {<<"mobile">>} ELSE {<<>>, <<"mobile">>},
        accessibility \in IF pers = AccessibilityExpert
                          THEN {<<"accessibility">>} ELSE {<<>>, <<"accessibility">>}}

\* C28: with the shipped phrase table no item returned by generateFeedback has
\* an id of the form feedback-{seed}-fallback-{i} or feedback-fallback-{seed}-{i}:
\* the style-filtered pool over the working categories, and over every list of
\* working categories a description can lead to, holds at least 6 phrases,
\* so the selector returns at least 6 items and nothing is topped up.
C28_NoLastResort ==
    Generated =>
        LET seed == getInputSeed(description, imageData, persona)
            pool == SelectorPool(WorkingCategories(description, persona), persona)
        IN  /\ Len(pool) >= 6
            /\ Range(WorkingCategories(description, persona))
                  \in {Range(categories) : categories \in PossibleCategories(persona)}
            /\ \A categories \in PossibleCategories(persona) :
                  Len(SelectorPool(categories, persona)) >= 6
            /\ Len(PrimaryList(description, imageData, persona)) >= 6
            /\ \A i \in 1..Len(feedbacks) :
                  /\ feedbacks[i].id \notin LastResortIds(seed)
                  /\ ~StartsWith(feedbacks[i].id, IdFeedbackFallback)

\* a description without any keyword, where only the two categories always
\* included are searched, and a persona whose style narrows the pool
C28_Witness ==
    /\ Generated
    /\ extractKeywords(description) = <<>>
    /\ ~NotAText(description)
    /\ persona = AccessibilityExpert
    /\ Len(feedbacks) >= 6


\* the ids of the cards displayed, and the cards that carry a note
DisplayedIds(s) == {s.feedbacks[i].id : i \in 1..Len(s.feedbacks)}
NoteKeys(s) == {n[1] : n \in s.userNotes}

\* C24: after every step of the page, every key of userNotes is the id of a
\* feedback item displayed (so without feedback there are no notes), and a
\* generation that replaces the list keeps exactly the notes whose ids are
\* still displayed.
C24_NotesFollowFeedbacks ==
    [][/\ NoteKeys(app') \subseteq DisplayedIds(app')
       /\ GenerationDone =>
             app'.userNotes = {n \in app.userNotes : n[1] \in DisplayedIds(app')}]_vars

\* a note was written on a list that a later generation has replaced by another
\* list, and the note is gone
C24_Witness ==
    /\ notesSaveTimeout # <<>>
    /\ notesSaveTimeout[1].userNotes # {}
    /\ app.feedbacks # <<>>
    /\ app.feedbacks # notesSaveTimeout[1].feedbacks
    /\ DisplayedIds(app) \cap DisplayedIds(notesSaveTimeout[1]) = {}
    /\ app.userNotes = {}

\* a note was written, a later generation made with a file chosen and not yet
\* analyzed returned the same ids, and the note is kept
C24_NoteKept ==
    /\ notesSaveTimeout # <<>>
    /\ notesSaveTimeout[1].lastGeneratedImageIdentifier = <<>>
    /\ app.lastGeneratedImageIdentifier # <<>>
    /\ app.userNotes = notesSaveTimeout[1].userNotes
    /\ app.userNotes # {}


\* C29: in every state of the page, imageData is null or the analysis result of
\* the image file currently selected.
C29_ImageDataMatchesFile ==
    \/ app.imageData = NullImage
    \/ /\ app.imageFile # NoFile
       /\ app.imageData = analyzeImage(app.imageFile)

\* C30: in every state of the page where feedback is displayed and the Generate
\* button is disabled because the inputs are unchanged, the feedback displayed
\* is generateFeedback of the current description, imageData and persona.
C30_DisabledMeansUpToDate ==
    (app.feedbacks # <<>> /\ ~canGenerate(app)) =>
        app.feedbacks = generateFeedback(StringValue(app.description), app.imageData,
                                         app.selectedPersona)


\* C26: whenever isGenerating is set, by a generation or by a PDF export, it is
\* cleared again later, so the buttons are never disabled for good by the flag.
C26_LoadingCleared == app.isGenerating ~> ~app.isGenerating

\* an export has returned and the timer of its finally block has not fired: the
\* flag is still set and only that timer will clear it
C26_Witness ==
    /\ app.isGenerating
    /\ generating = <<>>
    /\ exporting = 0
    /\ resetTimers = 1

=============================================================================
